---- MODULE Spec2Model ----
(***************************************************************************)
(* Matching, reconciliation and human-review gating engine.                *)
(*                                                                         *)
(* Numbers.  Scores and confidences (Python floats in [0, 1]) are carried  *)
(* in thousandths, the precision the code rounds them to (round(x, 3)).    *)
(* Percentage tolerances are carried in thousandths as well (0.05 = 50).   *)
(* Quantities, prices and amounts are integers in the unit in which the    *)
(* absolute tolerance of their comparison is an integer.                   *)
(*                                                                         *)
(* Optional values.  Python's None is the empty tuple and a present value  *)
(* v is the one-element tuple <<v>>.                                       *)
(***************************************************************************)
EXTENDS Integers, Sequences, FiniteSets, TLC

VARIABLES
    numeric,        \* one call of match_numeric: arguments and result
    line_items,     \* one call of match_line_items: arguments and result
    three_way,      \* one call of compute_three_way_match: arguments and result
    review_queue,   \* table review_queue: id -> ReviewItem
    audit_events,   \* table audit_events, in insertion order
    clock,          \* datetime.now(), a logical clock
    hitl_settings,  \* Settings read by HITLService.__init__
    last_call,      \* the most recent HITLService call and its outcome
    reconciliation, \* one call of run_reconciliation: rows, run and records
    anomaly_scan,   \* the allocations and the table anomaly_flags
    sessions,       \* the review_item requests in flight, one DB session each
    duplicate_check, \* one call of detect_duplicate: arguments and result
    scalar_match    \* one call of match_by_amount and of match_by_date

vars == <<numeric, line_items, three_way, review_queue, audit_events, clock,
          hitl_settings, last_call, reconciliation, anomaly_scan, sessions,
          duplicate_check, scalar_match>>

\* ------------------------------------------------------------------------
\* Optional values and arithmetic helpers
\* ------------------------------------------------------------------------
None == <<>>

Some(v) == <<v>>

Val(o) == o[1]

Abs(x) == IF x < 0 THEN -x ELSE x

Max(a, b) == IF a >= b THEN a ELSE b

\* round(n / d) for d > 0, ties to the even integer (Python's round).
Round(n, d) ==
    LET q == n \div d
        r == n % d
    IN  IF 2 * r < d THEN q
        ELSE IF 2 * r > d THEN q + 1
        ELSE IF q % 2 = 0 THEN q ELSE q + 1

\* ------------------------------------------------------------------------
\* Bounds of the model
\* ------------------------------------------------------------------------
MaxValue == 21

MaxTolAbs == 2

\* ------------------------------------------------------------------------
\* matching_engine/matchers.py : match_numeric
\* ------------------------------------------------------------------------
\* Mutation of numeric_max_val: the relative difference is taken against
\* value_a alone.
numeric_max_val_a_only(a, b) == Abs(a)

\* max_val = max(abs(value_a), abs(value_b))
numeric_max_val(a, b) == Max(Abs(a), Abs(b))

\* Mutation of numeric_confidence: ratio * 1.0 instead of ratio * 0.2, the
\* confidence of a match at the tolerance boundary drops to 0.0.
numeric_confidence_steep(diff, max_val, tolerance_pct) ==
    IF tolerance_pct > 0
    THEN IF diff * 1000 < tolerance_pct * max_val
         THEN Round(1000 * tolerance_pct * max_val - 1000000 * diff,
                    tolerance_pct * max_val)
         ELSE 0
    ELSE 1000

\* ratio = min(diff_pct / tolerance_pct, 1.0) if tolerance_pct > 0 else 0.0
\* confidence = round(1.0 - ratio * 0.2, 3), in thousandths:
\*   1000 - 200 * (1000 * diff) / (tolerance_pct * max_val).
numeric_confidence(diff, max_val, tolerance_pct) ==
    IF tolerance_pct > 0
    THEN IF diff * 1000 < tolerance_pct * max_val
         THEN Round(1000 * tolerance_pct * max_val - 200000 * diff,
                    tolerance_pct * max_val)
         ELSE 800
    ELSE 1000

\* match_numeric past the None guard: both values are numbers.
match_numeric_values(a, b, tolerance_pct, tolerance_abs) ==
    IF a = 0 /\ b = 0 THEN <<TRUE, 1000>>
    ELSE IF a = 0 \/ b = 0 THEN <<FALSE, 0>>
    ELSE LET diff == Abs(a - b)
             max_val == numeric_max_val(a, b)
             within_pct == diff * 1000 <= tolerance_pct * max_val
             within_abs == IF tolerance_abs > 0
                           THEN diff <= tolerance_abs ELSE FALSE
         IN  IF within_pct \/ within_abs
             THEN IF diff = 0 THEN <<TRUE, 1000>>
                  ELSE <<TRUE, numeric_confidence(diff, max_val, tolerance_pct)>>
             ELSE <<FALSE, 0>>

\* Mutation of match_numeric: two absent values are treated like two zeros.
match_numeric_none_as_zero(value_a, value_b, tolerance_pct, tolerance_abs) ==
    IF value_a = None /\ value_b = None THEN <<TRUE, 1000>>
    ELSE IF value_a = None \/ value_b = None THEN <<FALSE, 0>>
    ELSE match_numeric_values(Val(value_a), Val(value_b),
                              tolerance_pct, tolerance_abs)

\* match_numeric(value_a, value_b, tolerance_pct, tolerance_abs)
\*   -> <<is_match, confidence>>
match_numeric(value_a, value_b, tolerance_pct, tolerance_abs) ==
    IF value_a = None \/ value_b = None THEN <<FALSE, 0>>
    ELSE match_numeric_values(Val(value_a), Val(value_b),
                              tolerance_pct, tolerance_abs)

\* Inputs of match_numeric: absent, zero, negative and positive values;
\* tolerance_pct 0, 3% and 5% (MATCH_TOLERANCES) and 20%.
NumericValues == {None} \cup {Some(v) : v \in (-MaxValue)..MaxValue}

TolerancePcts == {0, 30, 50, 200}

ToleranceAbs == 0..MaxTolAbs

\* ------------------------------------------------------------------------
\* matching_engine/matchers.py : match_description, match_line_items
\* ------------------------------------------------------------------------
\* A description is an optional text; a text is the sequence of its
\* whitespace-separated words (the empty sequence is a blank string).

\* str.lower() on the words of the vocabulary.
Lower(w) ==
    CASE w = "Widget" -> "widget"
      [] w = "PART" -> "part"
      [] OTHER -> w

\* set(desc.lower().split())
WordSet(text) == {Lower(text[i]) : i \in 1..Len(text)}

\* match_description(desc_a, desc_b) -> <<matched, round(jaccard, 3)>>
match_description(desc_a, desc_b) ==
    IF desc_a = None \/ desc_b = None THEN <<FALSE, 0>>
    ELSE LET words_a == WordSet(Val(desc_a))
             words_b == WordSet(Val(desc_b))
             intersection == words_a \cap words_b
             union == words_a \cup words_b
         IN  IF words_a = {} \/ words_b = {} THEN <<FALSE, 0>>
             ELSE <<2 * Cardinality(intersection) >= Cardinality(union),
                    Round(1000 * Cardinality(intersection), Cardinality(union))>>

\* MATCH_TOLERANCES; unit prices are carried in cents (unit_price_abs 0.01).
MATCH_TOLERANCES ==
    [quantity_pct |-> 50, quantity_abs |-> 1,
     unit_price_pct |-> 30, unit_price_abs |-> 1,
     total_amount_pct |-> 50, total_amount_abs |-> 100]

\* Admission threshold of a pairing: best_desc_score >= 0.3.
MinDescScore == 300

\* Mutation of better_candidate: first fit, the first candidate with a
\* positive score is kept.
better_candidate_first(desc_score, best_desc_score) ==
    best_desc_score = 0 /\ desc_score > 0

\* Mutation of better_candidate: a candidate that ties with the best one
\* replaces it.
better_candidate_last_tie(desc_score, best_desc_score) ==
    desc_score >= best_desc_score

\* if desc_score > best_desc_score
better_candidate(desc_score, best_desc_score) == desc_score > best_desc_score

\* Mutation of skip_invoice_index: consumed invoice items stay candidates.
skip_invoice_index_never(inv_idx, used_invoice_indices) == FALSE

\* if inv_idx in used_invoice_indices: continue
skip_invoice_index(inv_idx, used_invoice_indices) ==
    inv_idx \in used_invoice_indices

\* The inner loop of match_line_items over enumerate(invoice_items), from
\* inv_idx on: -> <<best_inv_idx, best_desc_score>>.  Indices are 0-based.
RECURSIVE best_invoice_item(_, _, _, _, _, _)
best_invoice_item(po_item, invoice_items, used_invoice_indices, inv_idx, best_inv_idx, best_desc_score) ==
    IF inv_idx >= Len(invoice_items) THEN <<best_inv_idx, best_desc_score>>
    ELSE IF skip_invoice_index(inv_idx, used_invoice_indices)
    THEN best_invoice_item(po_item, invoice_items, used_invoice_indices,
                           inv_idx + 1, best_inv_idx, best_desc_score)
    ELSE LET desc_score ==
                 match_description(po_item.description,
                                   invoice_items[inv_idx + 1].description)[2]
         IN  IF better_candidate(desc_score, best_desc_score)
             THEN best_invoice_item(po_item, invoice_items,
                                    used_invoice_indices,
                                    inv_idx + 1, Some(inv_idx), desc_score)
             ELSE best_invoice_item(po_item, invoice_items,
                                    used_invoice_indices,
                                    inv_idx + 1, best_inv_idx, best_desc_score)

\* LineItemMatch(...) of an accepted pairing.
paired_line_item(po_idx, po_item, best_inv_idx, inv_item, best_desc_score, tol) ==
    LET qty_score == match_numeric(po_item.quantity, inv_item.quantity,
                                   tol.quantity_pct, tol.quantity_abs)[2]
        price_score == match_numeric(po_item.unit_price, inv_item.unit_price,
                                     tol.unit_price_pct, tol.unit_price_abs)[2]
    IN  [po_index |-> po_idx,
         invoice_index |-> Some(best_inv_idx),
         description_match |-> best_desc_score,
         quantity_match |-> qty_score,
         unit_price_match |-> price_score,
         overall |-> Round(3 * best_desc_score + 4 * qty_score
                           + 3 * price_score, 10),
         notes |-> (IF qty_score = 0 THEN <<"Quantity mismatch">> ELSE <<>>)
                   \o (IF price_score = 0 THEN <<"Price mismatch">> ELSE <<>>)]

\* LineItemMatch(...) of a PO item without an acceptable invoice item.
unpaired_line_item(po_idx, best_desc_score) ==
    [po_index |-> po_idx,
     invoice_index |-> None,
     description_match |-> best_desc_score,
     quantity_match |-> 0,
     unit_price_match |-> 0,
     overall |-> 0,
     notes |-> <<"No matching invoice line item found for PO item">>]

\* The outer loop of match_line_items over enumerate(po_items), from po_idx
\* on, with the results and the consumed invoice indices so far.
RECURSIVE match_line_items_from(_, _, _, _, _, _)
match_line_items_from(po_items, invoice_items, tol, po_idx, used_invoice_indices, results) ==
    IF po_idx >= Len(po_items) THEN results
    ELSE LET po_item == po_items[po_idx + 1]
             best == best_invoice_item(po_item, invoice_items,
                                       used_invoice_indices, 0, None, 0)
             best_inv_idx == best[1]
             best_desc_score == best[2]
         IN  IF best_inv_idx # None /\ best_desc_score >= MinDescScore
             THEN match_line_items_from(
                      po_items, invoice_items, tol, po_idx + 1,
                      used_invoice_indices \cup {Val(best_inv_idx)},
                      Append(results,
                             paired_line_item(po_idx, po_item, Val(best_inv_idx),
                                              invoice_items[Val(best_inv_idx) + 1],
                                              best_desc_score, tol)))
             ELSE match_line_items_from(
                      po_items, invoice_items, tol, po_idx + 1,
                      used_invoice_indices,
                      Append(results, unpaired_line_item(po_idx, best_desc_score)))

\* match_line_items(po_items, invoice_items, tolerances)
match_line_items(po_items, invoice_items, tol) ==
    match_line_items_from(po_items, invoice_items, tol, 0, {}, <<>>)

\* Inputs of match_line_items: line items as the extraction produces them,
\* {description, quantity, unit_price}, each key possibly missing.
LineItem(desc, qty, price) ==
    [description |-> desc, quantity |-> qty, unit_price |-> price]

LineItemCatalogue ==
    { LineItem(Some(<<"widget">>), Some(10), Some(500)),
      LineItem(Some(<<"Widget", "PART">>), Some(10), Some(500)),
      LineItem(Some(<<"widget", "part", "blue">>), Some(20), Some(500)),
      LineItem(Some(<<"widget", "part", "blue", "large">>), Some(10), None),
      LineItem(None, Some(0), Some(0)) }

MaxPoItems == 3

MaxInvoiceItems == 2

SeqsUpTo(S, n) == UNION {[1..k -> S] : k \in 0..n}

\* ------------------------------------------------------------------------
\* matching_engine/matchers.py : match_party_name, compute_three_way_match
\* ------------------------------------------------------------------------
\* A party name is an optional text, a sequence of words as for descriptions.
\* The vocabulary has no word that is a substring of another one, so that
\* Python's substring test on the normalized strings is containment of a
\* contiguous run of words.

\* str.lower() on the words of party names.
LowerName(w) ==
    CASE w = "Acme" -> "acme"
      [] w = "Trading" -> "trading"
      [] w = "LLC" -> "llc"
      [] w = "Inc." -> "inc."
      [] OTHER -> w

\* n.replace(",", "").replace(".", "") on one word.
Unpunct(w) ==
    CASE w = "inc." -> "inc"
      [] w = "co." -> "co"
      [] w = "ltd." -> "ltd"
      [] w = "corp." -> "corp"
      [] w = "s.a." -> "sa"
      [] OTHER -> w

PARTY_SUFFIXES ==
    <<"llc", "inc", "inc.", "co", "co.", "ltd", "ltd.", "corp", "corp.",
      "corporation", "company", "limited", "gmbh", "sa", "s.a.">>

\* for suffix in [...]: if n.endswith(suffix): n = n[:-len(suffix)].strip()
\* (each suffix starts with a space: a word in front of it is required).
RECURSIVE strip_suffixes(_, _)
strip_suffixes(words, k) ==
    IF k > Len(PARTY_SUFFIXES) THEN words
    ELSE IF Len(words) >= 2 /\ words[Len(words)] = PARTY_SUFFIXES[k]
    THEN strip_suffixes(SubSeq(words, 1, Len(words) - 1), k + 1)
    ELSE strip_suffixes(words, k + 1)

\* normalize(name) of match_party_name
normalize(name) ==
    LET lowered == [i \in 1..Len(name) |-> LowerName(name[i])]
        stripped == strip_suffixes(lowered, 1)
    IN  [i \in 1..Len(stripped) |-> Unpunct(stripped[i])]

\* norm_a in norm_b
Contains(norm_a, norm_b) ==
    \E i \in 0..(Len(norm_b) - Len(norm_a)) :
        SubSeq(norm_b, i + 1, i + Len(norm_a)) = norm_a

\* match_party_name(name_a, name_b) -> <<matched, confidence>>
match_party_name(name_a, name_b) ==
    IF name_a = None \/ name_b = None THEN <<FALSE, 0>>
    ELSE IF Val(name_a) = <<>> \/ Val(name_b) = <<>> THEN <<FALSE, 0>>
    ELSE LET norm_a == normalize(Val(name_a))
             norm_b == normalize(Val(name_b))
         IN  IF norm_a = <<>> \/ norm_b = <<>> THEN <<FALSE, 0>>
             ELSE IF norm_a = norm_b THEN <<TRUE, 1000>>
             ELSE IF Contains(norm_a, norm_b) \/ Contains(norm_b, norm_a)
             THEN <<TRUE, 850>>
             ELSE <<FALSE, 0>>

\* A party field of an extraction: missing, {"name": ...} or a plain string.
\* _get_party_name(data, field)
_get_party_name(party) ==
    IF party.kind = "dict" THEN party.name
    ELSE IF party.kind = "str" THEN party.name
    ELSE None

\* Truthiness of an optional extraction dict: None and {} are falsy.
Truthy(data) == data # None /\ ~Val(data).is_empty

\* Mutation of missing_documents: an absent purchase order is not recorded.
missing_documents_without_po(po_data, bol_data, invoice_data) ==
    (IF bol_data = None THEN <<"bill_of_lading_or_packing_list">> ELSE <<>>)
    \o (IF invoice_data = None THEN <<"commercial_invoice">> ELSE <<>>)

\* Mutation of missing_documents: an absent bill of lading is not recorded.
missing_documents_without_bol(po_data, bol_data, invoice_data) ==
    (IF po_data = None THEN <<"purchase_order">> ELSE <<>>)
    \o (IF invoice_data = None THEN <<"commercial_invoice">> ELSE <<>>)

\* The three `is None` tests that fill `missing`.
missing_documents(po_data, bol_data, invoice_data) ==
    (IF po_data = None THEN <<"purchase_order">> ELSE <<>>)
    \o (IF bol_data = None THEN <<"bill_of_lading_or_packing_list">> ELSE <<>>)
    \o (IF invoice_data = None THEN <<"commercial_invoice">> ELSE <<>>)

\* if len(missing) >= 2
too_few_documents(missing) == Len(missing) >= 2

\* Mutation of has_missing_documents: one absent document is tolerated.
has_missing_documents_two(missing) == Len(missing) >= 2

\* if missing: (past the early return)
has_missing_documents(missing) == missing # <<>>

RECURSIVE SumSeq(_)
SumSeq(q) == IF q = <<>> THEN 0 ELSE Head(q) + SumSeq(Tail(q))

IsMatchedField(fm) == fm.matched

IsMismatchedField(fm) == ~fm.matched

HasPositiveOverall(lm) == lm.overall > 0

\* Mutation of IsMismatchedLine: no line item counts as mismatched.
IsMismatchedLine_never(lm) == FALSE

IsMismatchedLine(lm) == lm.overall < 500

FieldMatch(field_name, result, po_value, invoice_value) ==
    [field_name |-> field_name, matched |-> result[1],
     confidence |-> result[2],
     po_value |-> po_value, invoice_value |-> invoice_value]

\* The comparisons of compute_three_way_match past the early return.
three_way_field_matches(po_data, invoice_data, tol) ==
    IF Truthy(po_data) /\ Truthy(invoice_data)
    THEN LET po == Val(po_data)
             inv == Val(invoice_data)
             po_supplier == _get_party_name(po.supplier)
             inv_seller == _get_party_name(inv.seller)
         IN  << FieldMatch("party_name",
                           match_party_name(po_supplier, inv_seller),
                           po_supplier, inv_seller),
                FieldMatch("total_amount",
                           match_numeric(po.total_amount, inv.total_amount,
                                         tol.total_amount_pct,
                                         tol.total_amount_abs),
                           po.total_amount, inv.total_amount) >>
    ELSE <<>>

three_way_line_item_matches(po_data, invoice_data, tol) ==
    IF Truthy(po_data) /\ Truthy(invoice_data)
       /\ Val(po_data).line_items # <<>> /\ Val(invoice_data).line_items # <<>>
    THEN match_line_items(Val(po_data).line_items,
                          Val(invoice_data).line_items, tol)
    ELSE <<>>

three_way_notes(bol_data, invoice_data) ==
    IF Truthy(bol_data)
       /\ Val(bol_data).gross_weight # None
       /\ Val(Val(bol_data).gross_weight) # 0
       /\ Truthy(invoice_data)
    THEN <<"BOL gross weight">>
    ELSE <<>>

\* compute_three_way_match(po_data, bol_data, invoice_data, tolerances)
compute_three_way_match(po_data, bol_data, invoice_data, tol) ==
    LET missing == missing_documents(po_data, bol_data, invoice_data)
    IN  IF too_few_documents(missing)
        THEN [status |-> "incomplete",
              overall_confidence |-> 0,
              field_matches |-> <<>>,
              line_item_matches |-> <<>>,
              missing_documents |-> missing,
              notes |-> <<"At least 2 of 3 documents are required for matching">>]
        ELSE
        LET field_matches == three_way_field_matches(po_data, invoice_data, tol)
            line_item_matches ==
                three_way_line_item_matches(po_data, invoice_data, tol)
            notes == three_way_notes(bol_data, invoice_data)
            matched_fields == SelectSeq(field_matches, IsMatchedField)
            positive_lines == SelectSeq(line_item_matches, HasPositiveOverall)
            all_confidences ==
                [i \in 1..Len(matched_fields) |-> matched_fields[i].confidence]
            li_confidences ==
                [i \in 1..Len(positive_lines) |-> positive_lines[i].overall]
            all_scores == all_confidences \o li_confidences
            total == SumSeq(all_scores)
            n == Len(all_scores)
            mismatched_fields == SelectSeq(field_matches, IsMismatchedField)
            mismatched_lines == SelectSeq(line_item_matches, IsMismatchedLine)
            status ==
                IF has_missing_documents(missing) THEN "incomplete"
                ELSE IF all_scores = <<>> THEN "mismatch"
                ELSE IF mismatched_fields = <<>> /\ mismatched_lines = <<>>
                        /\ total >= 800 * n
                THEN "full_match"
                ELSE IF total >= 500 * n THEN "partial_match"
                ELSE "mismatch"
            overall ==
                IF has_missing_documents(missing) THEN Round(total, Max(n, 1))
                ELSE IF all_scores = <<>> THEN 0
                ELSE Round(total, n)
        IN  [status |-> status,
             overall_confidence |-> overall,
             field_matches |-> field_matches,
             line_item_matches |-> line_item_matches,
             missing_documents |-> missing,
             notes |-> notes]

\* Inputs of compute_three_way_match.
Party(kind, name) == [kind |-> kind, name |-> name]

Parties ==
    { Party("missing", None),
      Party("dict", Some(<<"Acme", "Trading", "LLC">>)),
      Party("str", Some(<<"acme", "trading">>)),
      Party("dict", Some(<<"globex">>)) }

DocLineItems ==
    { LineItem(Some(<<"widget">>), Some(100), Some(10000)),
      LineItem(Some(<<"Widget", "PART">>), Some(95), Some(10000)),
      LineItem(Some(<<"widget", "bolt">>), Some(50), None) }

MaxDocLineItems == 2

EmptyDict ==
    [is_empty |-> TRUE, supplier |-> Party("missing", None),
     seller |-> Party("missing", None), total_amount |-> None,
     line_items |-> <<>>, gross_weight |-> None]

PurchaseOrders ==
    {None, Some(EmptyDict)} \cup
    { Some([is_empty |-> FALSE, supplier |-> p,
            seller |-> Party("missing", None), total_amount |-> t,
            line_items |-> li, gross_weight |-> None]) :
        p \in {Party("missing", None),
               Party("dict", Some(<<"Acme", "Trading", "LLC">>))},
        t \in {None, Some(10000)},
        li \in SeqsUpTo(DocLineItems, MaxDocLineItems) }

Invoices ==
    {None, Some(EmptyDict)} \cup
    { Some([is_empty |-> FALSE, supplier |-> Party("missing", None),
            seller |-> p, total_amount |-> t,
            line_items |-> li, gross_weight |-> None]) :
        p \in Parties \ {Party("missing", None)},
        t \in {Some(10000), Some(9500), Some(5000)},
        li \in SeqsUpTo(DocLineItems, MaxDocLineItems) }

BillsOfLading ==
    {None, Some(EmptyDict)} \cup
    { Some([is_empty |-> FALSE, supplier |-> Party("missing", None),
            seller |-> Party("missing", None), total_amount |-> None,
            line_items |-> <<>>, gross_weight |-> w]) :
        w \in {None, Some(500)} }

\* ------------------------------------------------------------------------
\* hitl_workflow/service.py : HITLService
\* ------------------------------------------------------------------------
\* Dollar amounts are integers; confidences are in thousandths.

\* ReviewStatus
PENDING_REVIEW == "pending_review"

APPROVED == "approved"

REJECTED == "rejected"

ESCALATED == "escalated"

AUTO_APPROVED == "auto_approved"

\* The confidence floor of auto-approval, `confidence >= 0.85`.
AutoApproveConfidence == 850

\* Settings.hitl_auto_approve_dollar_threshold
DefaultAutoApproveThreshold == 1000

\* Settings.hitl_high_risk_dollar_threshold
DefaultHighRiskThreshold == 10000

HITLSettings(auto, high) ==
    [auto_approve_threshold |-> auto, high_risk_threshold |-> high]

\* Mutation of autonomy_rules: the high-risk override is skipped.
autonomy_rules_no_override(settings, severity, dollar_amount, confidence) ==
    IF dollar_amount # None /\ confidence # None
       /\ Val(dollar_amount) < settings.auto_approve_threshold
       /\ Val(confidence) >= AutoApproveConfidence
    THEN [auto_eligible |-> TRUE, status |-> AUTO_APPROVED, severity |-> severity]
    ELSE [auto_eligible |-> FALSE, status |-> PENDING_REVIEW, severity |-> severity]

\* create_review_item, the autonomy rules: auto_eligible, status and severity
\* of the new item.  The low-risk rule is applied first, the high-risk rule
\* second, overriding it.
autonomy_rules(settings, severity, dollar_amount, confidence) ==
    LET low_risk == dollar_amount # None /\ confidence # None
                    /\ Val(dollar_amount) < settings.auto_approve_threshold
                    /\ Val(confidence) >= AutoApproveConfidence
        first == IF low_risk
                 THEN [auto_eligible |-> TRUE, status |-> AUTO_APPROVED,
                       severity |-> severity]
                 ELSE [auto_eligible |-> FALSE, status |-> PENDING_REVIEW,
                       severity |-> severity]
    IN  IF dollar_amount # None
           /\ Val(dollar_amount) >= settings.high_risk_threshold
        THEN [auto_eligible |-> FALSE, status |-> PENDING_REVIEW,
              severity |-> IF severity = None THEN Some("high") ELSE severity]
        ELSE first

\* Mutation of AuditEvent: previous_state is not stored.
AuditEvent_without_previous_state(event_type, entity_type, entity_id, action, actor, actor_type, previous_state, new_state) ==
    [event_type |-> event_type, entity_type |-> entity_type,
     entity_id |-> entity_id, action |-> action, actor |-> actor,
     actor_type |-> actor_type, previous_state |-> None,
     new_state |-> new_state]

\* AuditService.log_event: the AuditEvent appended to the log.
AuditEvent(event_type, entity_type, entity_id, action, actor, actor_type, previous_state, new_state) ==
    [event_type |-> event_type, entity_type |-> entity_type,
     entity_id |-> entity_id, action |-> action, actor |-> actor,
     actor_type |-> actor_type, previous_state |-> previous_state,
     new_state |-> new_state]

\* HITLService.create_review_item(item_type, entity_id, entity_type, severity,
\* dollar_amount, confidence); uuid4() is the next free index of the table.
create_review_item(item_type, entity_id, entity_type, severity, dollar_amount, confidence) ==
    LET rules == autonomy_rules(hitl_settings, severity, dollar_amount, confidence)
        id == Len(review_queue) + 1
        item == [id |-> id,
                 status |-> rules.status,
                 item_type |-> item_type,
                 entity_id |-> entity_id,
                 entity_type |-> entity_type,
                 severity |-> rules.severity,
                 auto_approve_eligible |-> rules.auto_eligible,
                 dollar_amount |-> dollar_amount,
                 reviewed_by |-> None,
                 reviewed_at |-> None,
                 review_notes |-> None]
    IN  /\ review_queue' = Append(review_queue, item)
        /\ audit_events' =
               Append(audit_events,
                      AuditEvent("REVIEW_ITEM_CREATED", "review_item", id,
                                 "create", "system", "ai", None,
                                 [status |-> rules.status,
                                  item_type |-> item_type,
                                  dollar_amount |-> dollar_amount,
                                  auto_approved |-> rules.status = AUTO_APPROVED]))
        /\ last_call' = [op |-> "create_review_item", outcome |-> "ok",
                         item_id |-> id, action |-> "create",
                         reviewed_by |-> "system", notes |-> None,
                         dollar_amount |-> dollar_amount,
                         confidence |-> confidence]
        /\ UNCHANGED <<clock, hitl_settings>>

\* Mutation of action_status: escalate puts the item back into the queue.
action_status_requeue(action) ==
    CASE action = "approve" -> Some(APPROVED)
      [] action = "reject" -> Some(REJECTED)
      [] action = "escalate" -> Some(PENDING_REVIEW)
      [] OTHER -> None

\* Mutation of action_status: an unrecognized action is taken as an approval.
action_status_lenient(action) ==
    CASE action = "reject" -> Some(REJECTED)
      [] action = "escalate" -> Some(ESCALATED)
      [] OTHER -> Some(APPROVED)

\* review_item, the if/elif chain on action: the new status, None for the
\* else branch that raises ValueError.
action_status(action) ==
    CASE action = "approve" -> Some(APPROVED)
      [] action = "reject" -> Some(REJECTED)
      [] action = "escalate" -> Some(ESCALATED)
      [] OTHER -> None

\* Mutation of reviewed_item: the review time is not recorded.
reviewed_item_no_timestamp(item, new_status, reviewed_by, now, notes) ==
    [item EXCEPT !.status = new_status,
                 !.reviewed_by = Some(reviewed_by),
                 !.review_notes = notes]

\* Mutation of reviewed_item: an escalation raises the severity of the item.
reviewed_item_escalates_severity(item, new_status, reviewed_by, now, notes) ==
    [item EXCEPT !.status = new_status,
                 !.severity = IF new_status = ESCALATED THEN Some("high")
                              ELSE @,
                 !.reviewed_by = Some(reviewed_by),
                 !.reviewed_at = Some(now),
                 !.review_notes = notes]

\* Mutation of reviewed_item: the first reviewer of an item is kept.
reviewed_item_keep_first_reviewer(item, new_status, reviewed_by, now, notes) ==
    [item EXCEPT !.status = new_status,
                 !.reviewed_by = IF @ = None THEN Some(reviewed_by) ELSE @,
                 !.reviewed_at = Some(now),
                 !.review_notes = notes]

\* review_item, the assignments to the loaded item.
reviewed_item(item, new_status, reviewed_by, now, notes) ==
    [item EXCEPT !.status = new_status,
                 !.reviewed_by = Some(reviewed_by),
                 !.reviewed_at = Some(now),
                 !.review_notes = notes]

\* HITLService.review_item(item_id, action, reviewed_by, notes)
review_item(item_id, action, reviewed_by, notes) ==
    LET call == [op |-> "review_item", outcome |-> "ok",
                 item_id |-> item_id, action |-> action,
                 reviewed_by |-> reviewed_by, notes |-> notes,
                 dollar_amount |-> None, confidence |-> None]
    IN  IF item_id \notin DOMAIN review_queue
        THEN /\ last_call' = [call EXCEPT !.outcome = "not_found"]
             /\ UNCHANGED <<review_queue, audit_events, clock, hitl_settings>>
        ELSE IF action_status(action) = None
        THEN /\ last_call' = [call EXCEPT !.outcome = "invalid_action"]
             /\ UNCHANGED <<review_queue, audit_events, clock, hitl_settings>>
        ELSE LET item == review_queue[item_id]
                 previous_status == item.status
                 new_item == reviewed_item(item, Val(action_status(action)),
                                           reviewed_by, clock, notes)
             IN  /\ review_queue' = [review_queue EXCEPT ![item_id] = new_item]
                 /\ clock' = clock + 1
                 /\ audit_events' =
                        Append(audit_events,
                               AuditEvent("REVIEW_ITEM_ACTIONED", "review_item",
                                          item_id, action, reviewed_by, "user",
                                          Some([status |-> previous_status]),
                                          [status |-> new_item.status,
                                           notes |-> notes]))
                 /\ last_call' = call
                 /\ UNCHANGED hitl_settings

\* ------------------------------------------------------------------------
\* hitl_workflow/triggers.py : should_review_allocation
\* ------------------------------------------------------------------------
\* should_review_allocation(total_amount, min_confidence, *,
\* confidence_threshold, auto_approve_dollar_threshold,
\* high_risk_dollar_threshold) -> <<needs_review, reason>>, the reason by
\* its leading words.  auto_approve_dollar_threshold is not read.
should_review_allocation(total_amount, min_confidence, confidence_threshold, auto_approve_dollar_threshold, high_risk_dollar_threshold) ==
    IF min_confidence # None /\ Val(min_confidence) < confidence_threshold
    THEN <<TRUE, "Low confidence">>
    ELSE IF total_amount # None
            /\ Val(total_amount) >= high_risk_dollar_threshold
    THEN <<TRUE, "High-value allocation">>
    ELSE <<FALSE, "Auto-approved">>

\* The three thresholds of Settings that the trigger takes; HITLService
\* reads the two dollar thresholds of them.
AllocationSettings(auto, high, confidence) ==
    [auto_approve_threshold |-> auto, high_risk_threshold |-> high,
     allocation_confidence_threshold |-> confidence]

\* The trigger is asked about an allocation, with the thresholds of the
\* settings.
review_trigger(total_amount, min_confidence) ==
    LET r == should_review_allocation(
                 total_amount, min_confidence,
                 hitl_settings.allocation_confidence_threshold,
                 hitl_settings.auto_approve_threshold,
                 hitl_settings.high_risk_threshold)
    IN  last_call' = [op |-> "should_review_allocation",
                      outcome |-> IF r[1] THEN "needs_review"
                                  ELSE "no_review",
                      item_id |-> 0, action |-> r[2],
                      reviewed_by |-> "none", notes |-> None,
                      dollar_amount |-> total_amount,
                      confidence |-> min_confidence]

\* ------------------------------------------------------------------------
\* HITLService.review_item, request by request
\* ------------------------------------------------------------------------
\* Each request runs review_item on a database session of its own and gives
\* up control at its awaits: the select, the flush and the audit insert.
\* A session holds the arguments of the call, the ReviewItem object it
\* loaded and the local previous_status.
Session(item_id, action, reviewed_by, notes) ==
    [pc |-> "start", item_id |-> item_id, action |-> action,
     reviewed_by |-> reviewed_by, notes |-> notes,
     item |-> None, previous_status |-> None]

\* Mutation of flushed_row: the UPDATE is conditional on the status that the
\* session read (WHERE id = :id AND status = :previous_status).
flushed_row_if_unchanged(row, item, previous_status) ==
    IF row.status # previous_status THEN row
    ELSE [row EXCEPT !.status = item.status,
                     !.reviewed_by = item.reviewed_by,
                     !.reviewed_at = item.reviewed_at,
                     !.review_notes = item.review_notes]

\* db.flush(): UPDATE review_queue SET status, reviewed_by, reviewed_at,
\* review_notes WHERE id = :id, with the values of the session's object.
flushed_row(row, item, previous_status) ==
    [row EXCEPT !.status = item.status,
                !.reviewed_by = item.reviewed_by,
                !.reviewed_at = item.reviewed_at,
                !.review_notes = item.review_notes]

\* review_item up to the first await: the select, the not-found check and
\* previous_status.
session_load(s) ==
    LET ses == sessions[s]
    IN  IF ses.item_id \notin DOMAIN review_queue
        THEN sessions' = [sessions EXCEPT ![s].pc = "not_found"]
        ELSE sessions' =
                 [sessions EXCEPT
                     ![s].pc = "loaded",
                     ![s].item = Some(review_queue[ses.item_id]),
                     ![s].previous_status =
                         Some(review_queue[ses.item_id].status)]

\* review_item from the if/elif chain to the flush.
session_flush(s) ==
    LET ses == sessions[s]
    IN  IF action_status(ses.action) = None
        THEN /\ sessions' = [sessions EXCEPT ![s].pc = "invalid_action"]
             /\ UNCHANGED <<review_queue, clock>>
        ELSE LET item == reviewed_item(Val(ses.item),
                                       Val(action_status(ses.action)),
                                       ses.reviewed_by, clock, ses.notes)
             IN  /\ sessions' = [sessions EXCEPT ![s].pc = "flushed",
                                                  ![s].item = Some(item)]
                 /\ review_queue' =
                        [review_queue EXCEPT
                            ![ses.item_id] =
                                flushed_row(@, item,
                                            Val(ses.previous_status))]
                 /\ clock' = clock + 1

\* review_item from new_status to the return: the audit event.
session_log(s) ==
    LET ses == sessions[s]
    IN  /\ audit_events' =
               Append(audit_events,
                      AuditEvent("REVIEW_ITEM_ACTIONED", "review_item",
                                 ses.item_id, ses.action, ses.reviewed_by,
                                 "user",
                                 Some([status |-> Val(ses.previous_status)]),
                                 [status |-> Val(ses.item).status,
                                  notes |-> ses.notes]))
        /\ sessions' = [sessions EXCEPT ![s].pc = "done"]

NoResult == <<>>

\* ------------------------------------------------------------------------
\* reconciliation_engine/matchers.py
\* ------------------------------------------------------------------------
\* A reference number is an optional string.  The strings of the model:
\* two spellings of one shipment reference, the empty string and a string
\* of blanks.

\* ref.strip().lower()
NormalizeRef(ref) ==
    CASE ref = "SHP-001" -> "shp-001"
      [] ref = " shp-001 " -> "shp-001"
      [] ref = "  " -> ""
      [] OTHER -> ref

\* Truthiness of an optional string: None and "" are falsy.
TruthyStr(s) == s # None /\ Val(s) # ""

\* match_by_reference(ref_a, ref_b) -> <<is_match, confidence>>
match_by_reference(ref_a, ref_b) ==
    IF ~TruthyStr(ref_a) \/ ~TruthyStr(ref_b) THEN <<FALSE, 0>>
    ELSE IF NormalizeRef(Val(ref_a)) = NormalizeRef(Val(ref_b))
    THEN <<TRUE, 1000>>
    ELSE <<FALSE, 0>>

\* A call that raises instead of returning its pair: the exception.
Raised(exception) == <<exception>>

\* The default tolerance_pct of match_by_amount, 0.02, in thousandths.
AmountTolerancePct == 20

\* match_by_amount(amount_a, amount_b, tolerance_pct)
\*   -> <<is_match, confidence>>;
\* confidence = round(1.0 - (diff_pct / tolerance_pct) * 0.2, 3), a
\* division that raises when tolerance_pct is 0.
match_by_amount(amount_a, amount_b, tolerance_pct) ==
    IF amount_a = None \/ amount_b = None THEN <<FALSE, 0>>
    ELSE LET a == Val(amount_a)
             b == Val(amount_b)
             diff == Abs(a - b)
             max_val == Max(Abs(a), Abs(b))
         IN  IF a = 0 /\ b = 0 THEN <<TRUE, 1000>>
             ELSE IF a = 0 \/ b = 0 THEN <<FALSE, 0>>
             ELSE IF diff * 1000 <= tolerance_pct * max_val
             THEN IF tolerance_pct = 0 THEN Raised("ZeroDivisionError")
                  ELSE <<TRUE,
                         Round(1000 * tolerance_pct * max_val - 200000 * diff,
                               tolerance_pct * max_val)>>
             ELSE <<FALSE, 0>>

\* The default tolerance_days of match_by_date.
DateToleranceDays == 3

\* A date field is missing (None or ""), a string that fromisoformat
\* rejects ("invalid"), an ISO date with a UTC offset ("iso") or an ISO
\* date without one ("iso_naive"); a date is carried as its day number.
DateField(kind, day) == [kind |-> kind, day |-> day]

\* match_by_date(date_a, date_b, tolerance_days) -> <<is_match, confidence>>;
\* confidence = round(1.0 - (diff_days / tolerance_days) * 0.3, 3), a
\* division that raises when tolerance_days is 0.  dt_a - dt_b, outside the
\* try block, raises for an aware and a naive datetime.
match_by_date(date_a, date_b, tolerance_days) ==
    IF date_a.kind = "missing" \/ date_b.kind = "missing" THEN <<FALSE, 0>>
    ELSE IF date_a.kind = "invalid" \/ date_b.kind = "invalid" THEN <<FALSE, 0>>
    ELSE IF date_a.kind # date_b.kind THEN Raised("TypeError")
    ELSE LET diff_days == Abs(date_a.day - date_b.day)
         IN  IF diff_days <= tolerance_days
             THEN IF tolerance_days = 0 THEN Raised("ZeroDivisionError")
                  ELSE <<TRUE, Round(1000 * tolerance_days - 300 * diff_days,
                                     tolerance_days)>>
             ELSE <<FALSE, 0>>

\* compute_composite_confidence(ref_match, amount_match, date_match)
\*   = round(ref_match * 0.5 + amount_match * 0.3 + date_match * 0.2, 3)
compute_composite_confidence(ref_match, amount_match, date_match) ==
    Round(5 * ref_match + 3 * amount_match + 2 * date_match, 10)

\* ------------------------------------------------------------------------
\* hitl_workflow/triggers.py : should_review_reconciliation
\* ------------------------------------------------------------------------
\* should_review_reconciliation(match_confidence, mismatch_count,
\* total_records) -> needs_review.  match_confidence is not read.
should_review_reconciliation(match_confidence, mismatch_count, total_records) ==
    IF mismatch_count > 0 THEN TRUE
    ELSE IF total_records > 0
            /\ 10 * (total_records - mismatch_count) < 9 * total_records
    THEN TRUE
    ELSE FALSE

\* ------------------------------------------------------------------------
\* reconciliation_engine/service.py : ReconciliationEngine.run_reconciliation
\* ------------------------------------------------------------------------
\* A row of mock_logistics_data: reference_number and the data dict, of which
\* the engine reads "amount" (has_amount is FALSE when the key is missing,
\* amount is None for a JSON null) and "ship_date" / "posting_date".
LogisticsRow(ref, has_amount, amount, date) ==
    [reference_number |-> ref, has_amount |-> has_amount, amount |-> amount,
     date |-> date]

\* tms_data.get("amount", 0)
get_amount(row) == IF row.has_amount THEN row.amount ELSE Some(0)

\* ReconciliationRecord(...) as created for a loaded row; uuid4() is the
\* position of the record among the records of the run.
ReconciliationRecord(id, source, row) ==
    [id |-> id, source |-> source,
     reference_number |-> row.reference_number,
     record_data |-> row,
     match_status |-> "pending",
     matched_with_id |-> None,
     match_confidence |-> None,
     match_reasoning |-> None,
     mismatch_details |-> None]

\* The records of a run: the TMS records, then the ERP records.
created_records(tms_rows, erp_rows) ==
    [i \in 1..(Len(tms_rows) + Len(erp_rows)) |->
        IF i <= Len(tms_rows)
        THEN ReconciliationRecord(i, "tms", tms_rows[i])
        ELSE ReconciliationRecord(i, "erp", erp_rows[i - Len(tms_rows)])]

\* ref = (rec.reference_number or "").strip().lower()
ref_key(rec) ==
    IF rec.reference_number = None THEN ""
    ELSE NormalizeRef(Val(rec.reference_number))

\* erp_by_ref.get(ref, []): the ids of the ERP records filed under ref, in
\* the order of erp_records.
matching_erp(records, ref) ==
    {j \in DOMAIN records : records[j].source = "erp" /\ ref_key(records[j]) = ref}

\* matching_erp[0]
first_matching_erp(records, ref) ==
    CHOOSE j \in matching_erp(records, ref) :
        \A k \in matching_erp(records, ref) : j <= k

\* The assignments of the `if amt_match:` branch to the two records.
paired_as_matched(records, t, e, composite) ==
    [records EXCEPT
        ![t] = [@ EXCEPT !.match_status = "matched",
                         !.matched_with_id = Some(e),
                         !.match_confidence = Some(composite),
                         !.match_reasoning =
                             Some("Reference match + amount match")],
        ![e] = [@ EXCEPT !.match_status = "matched",
                         !.matched_with_id = Some(t),
                         !.match_confidence = Some(composite),
                         !.match_reasoning =
                             Some("Reference match + amount match")]]

\* The assignments of the else branch of `if amt_match:`.
paired_as_mismatch(records, t, e, composite, details) ==
    [records EXCEPT
        ![t] = [@ EXCEPT !.match_status = "mismatch",
                         !.matched_with_id = Some(e),
                         !.match_confidence = Some(composite),
                         !.match_reasoning =
                             Some("Reference matched but amounts differ"),
                         !.mismatch_details = Some(details)],
        ![e] = [@ EXCEPT !.match_status = "mismatch",
                         !.matched_with_id = Some(t),
                         !.match_confidence = Some(composite),
                         !.match_reasoning =
                             Some("Reference matched but amounts differ"),
                         !.mismatch_details = Some(details)]]

\* The else branch up to the TypeError that abs(tms_amount - erp_amount)
\* raises on a null amount: four attributes of the TMS record are assigned.
paired_until_type_error(records, t, e, composite) ==
    [records EXCEPT
        ![t] = [@ EXCEPT !.match_status = "mismatch",
                         !.matched_with_id = Some(e),
                         !.match_confidence = Some(composite),
                         !.match_reasoning =
                             Some("Reference matched but amounts differ")]]

\* The else branch of `if matching_erp:`.
without_counterpart(records, t) ==
    [records EXCEPT
        ![t] = [@ EXCEPT !.match_status = "mismatch",
                         !.match_reasoning =
                             Some("No matching ERP record found")]]

\* Phase 1, the loop over tms_records from record t on.  st holds the
\* records, matched_count, mismatch_count and whether the loop has raised.
RECURSIVE match_tms_records(_, _, _)
match_tms_records(st, t, n_tms) ==
    IF t > n_tms THEN st
    ELSE LET tms_rec == st.records[t]
             ref == ref_key(tms_rec)
         IN  IF matching_erp(st.records, ref) # {}
             THEN LET e == first_matching_erp(st.records, ref)
                      tms_amount == get_amount(tms_rec.record_data)
                      erp_amount == get_amount(st.records[e].record_data)
                      amt == match_by_amount(tms_amount, erp_amount,
                                             AmountTolerancePct)
                      date == match_by_date(tms_rec.record_data.date,
                                            st.records[e].record_data.date,
                                            DateToleranceDays)
                      composite ==
                          compute_composite_confidence(1000, amt[2], date[2])
                  IN  IF amt[1]
                      THEN match_tms_records(
                               [st EXCEPT
                                   !.records = paired_as_matched(
                                                   st.records, t, e, composite),
                                   !.matched_count = @ + 1],
                               t + 1, n_tms)
                      ELSE IF tms_amount = None \/ erp_amount = None
                      THEN [st EXCEPT
                               !.records = paired_until_type_error(
                                               st.records, t, e, composite),
                               !.raised = TRUE]
                      ELSE match_tms_records(
                               [st EXCEPT
                                   !.records = paired_as_mismatch(
                                       st.records, t, e, composite,
                                       [tms_amount |-> Val(tms_amount),
                                        erp_amount |-> Val(erp_amount),
                                        difference |->
                                            Abs(Val(tms_amount)
                                                - Val(erp_amount))]),
                                   !.mismatch_count = @ + 1],
                               t + 1, n_tms)
             ELSE match_tms_records(
                      [st EXCEPT
                          !.records = without_counterpart(st.records, t),
                          !.mismatch_count = @ + 1],
                      t + 1, n_tms)

\* Mutation of mark_unmatched_erp: the pass over the ERP records is skipped.
mark_unmatched_erp_skipped(st) == st

\* Mutation of mark_unmatched_erp: the records are marked, not counted.
mark_unmatched_erp_uncounted(st) ==
    [st EXCEPT
        !.records =
            [j \in DOMAIN st.records |->
                IF st.records[j].source = "erp"
                   /\ st.records[j].match_status = "pending"
                THEN [st.records[j] EXCEPT
                         !.match_status = "mismatch",
                         !.match_reasoning =
                             Some("No matching TMS record found")]
                ELSE st.records[j]]]

\* "Mark unmatched ERP records": every ERP record still pending becomes a
\* mismatch and is counted.
mark_unmatched_erp(st) ==
    LET pending == {j \in DOMAIN st.records :
                        /\ st.records[j].source = "erp"
                        /\ st.records[j].match_status = "pending"}
    IN  [st EXCEPT
            !.records =
                [j \in DOMAIN st.records |->
                    IF j \in pending
                    THEN [st.records[j] EXCEPT
                             !.match_status = "mismatch",
                             !.match_reasoning =
                                 Some("No matching TMS record found")]
                    ELSE st.records[j]],
            !.mismatch_count = @ + Cardinality(pending)]

\* Mutation of run_status: any mismatch makes the run a partial match.
run_status_never_mismatch(matched_count, mismatch_count) ==
    IF mismatch_count = 0 THEN "matched" ELSE "partial_match"

\* "Determine overall status"
run_status(matched_count, mismatch_count) ==
    IF mismatch_count = 0 THEN "matched"
    ELSE IF matched_count > 0 THEN "partial_match"
    ELSE "mismatch"

\* round(matched_count / max(len(tms_records), 1), 4), in ten-thousandths.
run_match_rate(matched_count, n_tms) ==
    Round(10000 * matched_count, Max(n_tms, 1))

\* ReconciliationRun(...) as created at the start of the run.
ReconciliationRun(id, run_by) ==
    [id |-> id, status |-> "pending", run_by |-> run_by,
     total_records |-> None, matched_count |-> None,
     mismatch_count |-> None, match_rate |-> None]

\* The ReviewItem that run_reconciliation adds for a run that needs review.
reconciliation_review_item(id, run_id, mismatch_count) ==
    [id |-> id,
     status |-> PENDING_REVIEW,
     item_type |-> "reconciliation_mismatch",
     entity_id |-> run_id,
     entity_type |-> "reconciliation_run",
     severity |-> Some(IF mismatch_count > 10 THEN "high" ELSE "medium"),
     auto_approve_eligible |-> FALSE,
     dollar_amount |-> None,
     reviewed_by |-> None,
     reviewed_at |-> None,
     review_notes |-> None]

\* ReconciliationEngine.run_reconciliation(db, run_by=run_by) over the rows
\* held in `reconciliation`.
run_reconciliation(run_by) ==
    LET tms_rows == reconciliation.tms_rows
        erp_rows == reconciliation.erp_rows
        n_tms == Len(tms_rows)
        run == ReconciliationRun(1, run_by)
        phase1 == match_tms_records(
                      [records |-> created_records(tms_rows, erp_rows),
                       matched_count |-> 0, mismatch_count |-> 0,
                       raised |-> FALSE],
                      1, n_tms)
        st == mark_unmatched_erp(phase1)
        total_records == n_tms + Len(erp_rows)
        match_rate == run_match_rate(st.matched_count, n_tms)
        needs_review ==
            should_review_reconciliation(match_rate, st.mismatch_count,
                                         total_records)
    IN  IF phase1.raised
        THEN /\ reconciliation' =
                    [reconciliation EXCEPT !.pc = "raised",
                                           !.run = Some(run),
                                           !.records = phase1.records]
             /\ UNCHANGED <<review_queue, audit_events>>
        ELSE /\ reconciliation' =
                    [reconciliation EXCEPT
                        !.pc = "done",
                        !.run = Some([run EXCEPT
                                    !.status = run_status(st.matched_count,
                                                          st.mismatch_count),
                                    !.total_records = Some(total_records),
                                    !.matched_count = Some(st.matched_count),
                                    !.mismatch_count = Some(st.mismatch_count),
                                    !.match_rate = Some(match_rate)]),
                        !.records = st.records]
             /\ review_queue' =
                    IF needs_review
                    THEN Append(review_queue,
                                reconciliation_review_item(
                                    Len(review_queue) + 1, run.id,
                                    st.mismatch_count))
                    ELSE review_queue
             /\ audit_events' =
                    Append(audit_events,
                           AuditEvent("RECONCILIATION_COMPLETED",
                                      "reconciliation_run", run.id,
                                      "reconcile", run_by,
                                      IF run_by # "system"
                                      THEN "user" ELSE "system",
                                      None,
                                      [total_records |-> total_records,
                                       matched |-> st.matched_count,
                                       mismatched |-> st.mismatch_count,
                                       match_rate |-> match_rate]))

\* Inputs of run_reconciliation: the rows of the two systems of record.
RowCatalogue ==
    { LogisticsRow(Some("SHP-001"), TRUE, Some(100), DateField("iso", 1)),
      LogisticsRow(Some(" shp-001 "), TRUE, Some(101), DateField("iso", 2)),
      LogisticsRow(Some("SHP-001"), TRUE, Some(200), DateField("iso", 9)),
      LogisticsRow(None, FALSE, None, DateField("missing", 0)),
      LogisticsRow(Some("  "), TRUE, None, DateField("invalid", 0)) }

MaxTmsRows == 2

MaxErpRows == 2

RunBy == {"system", "alice"}

NoReconciliation ==
    [pc |-> "idle", tms_rows |-> <<>>, erp_rows |-> <<>>,
     run |-> None, records |-> <<>>]

\* ------------------------------------------------------------------------
\* hitl_workflow/triggers.py : should_review_anomaly
\* ------------------------------------------------------------------------
AnomalySeverities == {"low", "medium", "high", "critical"}

\* Mutation of should_review_anomaly: medium anomalies are informational.
should_review_anomaly_high_only(severity, anomaly_type) ==
    severity \in {"high", "critical"}

\* should_review_anomaly(severity, anomaly_type) -> needs_review
should_review_anomaly(severity, anomaly_type) ==
    IF severity \in {"high", "critical"} THEN TRUE
    ELSE IF severity = "medium" THEN TRUE
    ELSE FALSE

\* ------------------------------------------------------------------------
\* anomaly_flagger/detectors.py
\* ------------------------------------------------------------------------
\* str.lower() on the vendor names of the model.
LowerVendor(v) ==
    CASE v = "ACME" -> "acme"
      [] v = "Acme" -> "acme"
      [] OTHER -> v

\* Settings.anomaly_duplicate_window_days
DuplicateWindowDays == 90

\* An entry of existing_invoices; date is None when the key is absent,
\* else the day number of the record.
ExistingInvoice(invoice_number, vendor, document_id, date) ==
    [invoice_number |-> invoice_number, vendor |-> vendor,
     document_id |-> document_id, date |-> date]

\* detect_duplicate(invoice_number, vendor, existing_invoices, window_days)
\*   -> dict | None: the details of the first entry whose invoice_number is
\* equal (==) and whose lowercased vendor is equal.  window_days is not
\* read.
detect_duplicate(invoice_number, vendor, existing_invoices, window_days) ==
    LET IsHit(i) ==
            /\ existing_invoices[i].invoice_number = invoice_number
            /\ LowerVendor(existing_invoices[i].vendor) = LowerVendor(vendor)
        hits == {i \in DOMAIN existing_invoices : IsHit(i)}
    IN  IF hits = {} THEN None
        ELSE LET first == CHOOSE i \in hits : \A j \in hits : i <= j
             IN  Some([duplicate_of_document_id |->
                           existing_invoices[first].document_id,
                       original_date |-> existing_invoices[first].date,
                       invoice_number |-> invoice_number,
                       vendor |-> vendor])

\* Settings.anomaly_budget_overrun_threshold, 0.1, in thousandths.
BudgetOverrunThreshold == 100

\* detect_budget_overrun(project_code, new_amount, budget_amount,
\* spent_amount, threshold): None, or the overrun with
\* overrun_pct = round(overrun_pct * 100, 1), in tenths of a percent.
detect_budget_overrun(project_code, new_amount, budget_amount, spent_amount, threshold) ==
    IF budget_amount <= 0 THEN None
    ELSE LET projected_total == spent_amount + new_amount
         IN  IF 1000 * (projected_total - budget_amount)
                    > threshold * budget_amount
             THEN Some([project_code |-> project_code,
                        projected_total |-> projected_total,
                        overrun_pct |->
                            Round(1000 * (projected_total - budget_amount),
                                  budget_amount)])
             ELSE None

\* Settings.allocation_confidence_threshold, 0.85, in thousandths.
ConfidenceThreshold == 850

\* detect_low_confidence_items(line_items, confidence_threshold): the
\* flagged items.
IsLowConfidence(item) == item.confidence < ConfidenceThreshold

detect_low_confidence_items(items) == SelectSeq(items, IsLowConfidence)

\* ------------------------------------------------------------------------
\* anomaly_flagger/service.py : AnomalyFlagger.scan
\* ------------------------------------------------------------------------
\* Table project_budgets: project_code -> budget, or None.
ProjectBudget(code) ==
    CASE code = "P1" -> Some([budget_amount |-> 50000, spent_amount |-> 48000])
      [] code = "P2" -> Some([budget_amount |-> 10000, spent_amount |-> 9000])
      [] OTHER -> None

\* AnomalyFlag(...) as the checks create it; id and review_item_id are set
\* by scan.
AnomalyFlag(alloc, anomaly_type, severity, project_code) ==
    [id |-> 0,
     document_id |-> alloc.document_id,
     allocation_id |-> alloc.id,
     anomaly_type |-> anomaly_type,
     severity |-> severity,
     project_code |-> project_code,
     is_resolved |-> FALSE,
     resolved_by |-> None,
     resolved_at |-> None,
     resolution_notes |-> None,
     review_item_id |-> None]

\* The latest extractions of the documents other than doc_id, as
\* _check_duplicate collects them in existing_invoices.
existing_invoices_for(allocations, doc_id) ==
    LET IsOther(a) == /\ a.document_id # None
                      /\ Val(a.document_id) # doc_id
                      /\ a.extraction # None
        others == SelectSeq(allocations, IsOther)
    IN  [i \in 1..Len(others) |->
            ExistingInvoice(Val(others[i].extraction).invoice_number,
                            Val(others[i].extraction).vendor,
                            Val(others[i].document_id), None)]

\* AnomalyFlagger._check_duplicate(db, alloc)
_check_duplicate(allocations, alloc) ==
    IF alloc.document_id = None THEN <<>>
    ELSE IF alloc.extraction = None THEN <<>>
    ELSE LET data == Val(alloc.extraction)
         IN  IF data.invoice_number = "" THEN <<>>
             ELSE IF detect_duplicate(
                         data.invoice_number, data.vendor,
                         existing_invoices_for(allocations,
                                               Val(alloc.document_id)),
                         DuplicateWindowDays) # None
             THEN <<AnomalyFlag(alloc, "duplicate_invoice", "high", None)>>
             ELSE <<>>

\* code = li.override_project_code or li.project_code
line_item_code(li) ==
    IF TruthyStr(li.override_project_code) THEN li.override_project_code
    ELSE li.project_code

\* The keys of project_amounts in insertion order: the project codes of the
\* line items from item k on that are not in `seen`.
RECURSIVE project_codes(_, _, _)
project_codes(items, k, seen) ==
    IF k > Len(items) THEN <<>>
    ELSE LET code == line_item_code(items[k])
         IN  IF ~TruthyStr(code) \/ Val(code) \in seen
             THEN project_codes(items, k + 1, seen)
             ELSE <<Val(code)>>
                  \o project_codes(items, k + 1, seen \cup {Val(code)})

\* project_amounts[code]
RECURSIVE project_amount(_, _, _)
project_amount(items, k, code) ==
    IF k > Len(items) THEN 0
    ELSE (IF line_item_code(items[k]) = Some(code) THEN items[k].amount ELSE 0)
         + project_amount(items, k + 1, code)

\* The loop of _check_budget_overrun over project_amounts.items(), from
\* the k-th code on.
RECURSIVE budget_overrun_flags(_, _, _)
budget_overrun_flags(alloc, codes, k) ==
    IF k > Len(codes) THEN <<>>
    ELSE LET code == codes[k]
             budget == ProjectBudget(code)
             overrun ==
                 IF budget = None THEN None
                 ELSE detect_budget_overrun(
                          code, project_amount(alloc.line_items, 1, code),
                          Val(budget).budget_amount, Val(budget).spent_amount,
                          BudgetOverrunThreshold)
         IN  (IF overrun # None
              THEN <<AnomalyFlag(alloc, "budget_overrun",
                                 IF Val(overrun).overrun_pct > 200
                                 THEN "high" ELSE "medium",
                                 Some(code))>>
              ELSE <<>>)
             \o budget_overrun_flags(alloc, codes, k + 1)

\* AnomalyFlagger._check_budget_overrun(db, alloc)
_check_budget_overrun(alloc) ==
    IF alloc.line_items = <<>> THEN <<>>
    ELSE budget_overrun_flags(alloc,
                              project_codes(alloc.line_items, 1, {}), 1)

\* AnomalyFlagger._check_low_confidence(db, alloc);
\* "confidence": li.confidence or 1.0
_check_low_confidence(alloc) ==
    IF alloc.line_items = <<>> THEN <<>>
    ELSE LET items ==
                 [i \in 1..Len(alloc.line_items) |->
                     [index |-> i,
                      amount |-> alloc.line_items[i].amount,
                      confidence |->
                          IF alloc.line_items[i].confidence = None
                             \/ alloc.line_items[i].confidence = Some(0)
                          THEN 1000
                          ELSE Val(alloc.line_items[i].confidence)]]
         IN  IF detect_low_confidence_items(items) = <<>> THEN <<>>
             ELSE <<AnomalyFlag(alloc, "misallocated_cost", "medium", None)>>

\* AnomalyFlagger._check_missing_approval(db, alloc)
_check_missing_approval(alloc) ==
    IF alloc.total_amount = None \/ alloc.total_amount = Some(0) THEN <<>>
    ELSE IF Val(alloc.total_amount) < DefaultHighRiskThreshold THEN <<>>
    ELSE IF alloc.status = "approved" THEN <<>>
    ELSE <<AnomalyFlag(alloc, "missing_approval", "high", None)>>

\* The four checks of scan on one allocation, in their order.
checked_allocation(allocations, alloc) ==
    _check_duplicate(allocations, alloc)
    \o _check_budget_overrun(alloc)
    \o _check_low_confidence(alloc)
    \o _check_missing_approval(alloc)

\* The loop `for alloc in allocations` of scan, from the k-th selected
\* allocation on: the anomalies found.
RECURSIVE detected_anomalies(_, _, _)
detected_anomalies(allocations, selected, k) ==
    IF k > Len(selected) THEN <<>>
    ELSE checked_allocation(allocations, selected[k])
         \o detected_anomalies(allocations, selected, k + 1)

\* The ReviewItem that scan adds for an anomaly that needs review.
anomaly_review_item(id, anomaly) ==
    [id |-> id,
     status |-> PENDING_REVIEW,
     item_type |-> "anomaly",
     entity_id |-> anomaly.id,
     entity_type |-> "anomaly_flag",
     severity |-> Some(anomaly.severity),
     auto_approve_eligible |-> FALSE,
     dollar_amount |-> None,
     reviewed_by |-> None,
     reviewed_at |-> None,
     review_notes |-> None]

\* AnomalyFlagger.scan(db, document_id); uuid4() is the next free index of
\* the table the object goes to.
scan(document_id) ==
    LET allocations == anomaly_scan.allocations
        IsSelected(a) == document_id = None \/ a.document_id = document_id
        selected == SelectSeq(allocations, IsSelected)
        found == detected_anomalies(allocations, selected, 1)
        base == Len(anomaly_scan.anomaly_flags)
        anomalies == [i \in 1..Len(found) |-> [found[i] EXCEPT !.id = base + i]]
        needs_review(i) ==
            should_review_anomaly(anomalies[i].severity,
                                  anomalies[i].anomaly_type)
        reviewed_up_to(i) ==
            Cardinality({j \in 1..i : needs_review(j)})
        n_items == reviewed_up_to(Len(anomalies))
        item_id(i) == Len(review_queue) + reviewed_up_to(i)
        linked == [i \in 1..Len(anomalies) |->
                      IF needs_review(i)
                      THEN [anomalies[i] EXCEPT
                               !.review_item_id = Some(item_id(i))]
                      ELSE anomalies[i]]
        items == [k \in 1..n_items |->
                     LET i == CHOOSE i \in 1..Len(anomalies) :
                                  needs_review(i) /\ reviewed_up_to(i) = k
                     IN  anomaly_review_item(item_id(i), anomalies[i])]
    IN  /\ anomaly_scan' =
               [anomaly_scan EXCEPT
                   !.anomaly_flags = @ \o linked,
                   !.scans = @ + 1,
                   !.returned = Len(linked)]
        /\ review_queue' = review_queue \o items
        /\ audit_events' =
               IF anomalies # <<>>
               THEN Append(audit_events,
                           AuditEvent("ANOMALY_SCAN_COMPLETED", "anomaly_scan",
                                      None, "scan", "system", "ai", None,
                                      [anomalies_found |-> Len(anomalies),
                                       document_id |-> document_id]))
               ELSE audit_events

\* ------------------------------------------------------------------------
\* api/v1/anomalies.py : resolve_anomaly
\* ------------------------------------------------------------------------
\* Mutation of resolved_flag: the time of the resolution is not recorded.
resolved_flag_no_timestamp(anomaly, resolved_by, now, resolution_notes) ==
    [anomaly EXCEPT !.is_resolved = TRUE,
                    !.resolved_by = Some(resolved_by),
                    !.resolution_notes = resolution_notes]

\* resolve_anomaly, the assignments to the loaded flag.
resolved_flag(anomaly, resolved_by, now, resolution_notes) ==
    [anomaly EXCEPT !.is_resolved = TRUE,
                    !.resolved_by = Some(resolved_by),
                    !.resolved_at = Some(now),
                    !.resolution_notes = resolution_notes]

\* POST /anomalies/{anomaly_id}/resolve with
\* AnomalyResolutionRequest(resolved_by, resolution_notes); an unknown id
\* is answered 404.
resolve_anomaly(anomaly_id, resolved_by, resolution_notes) ==
    LET call == [op |-> "resolve_anomaly", outcome |-> "ok",
                 item_id |-> anomaly_id, action |-> "resolve",
                 reviewed_by |-> resolved_by, notes |-> resolution_notes,
                 dollar_amount |-> None, confidence |-> None]
    IN  IF anomaly_id \notin DOMAIN anomaly_scan.anomaly_flags
        THEN /\ last_call' = [call EXCEPT !.outcome = "not_found"]
             /\ UNCHANGED <<anomaly_scan, audit_events, clock>>
        ELSE /\ anomaly_scan' =
                    [anomaly_scan EXCEPT
                        !.anomaly_flags[anomaly_id] =
                            resolved_flag(@, resolved_by, clock,
                                          resolution_notes)]
             /\ clock' = clock + 1
             /\ audit_events' =
                    Append(audit_events,
                           AuditEvent("ANOMALY_RESOLVED", "anomaly_flag",
                                      anomaly_id, "resolve", resolved_by,
                                      "user", None,
                                      [is_resolved |-> TRUE,
                                       resolution_notes |-> resolution_notes]))
             /\ last_call' = call

\* Inputs of scan: rows of cost_allocations with their line items and the
\* latest extraction of their document.
AllocationLine(code, override, amount, confidence) ==
    [project_code |-> code, override_project_code |-> override,
     amount |-> amount, confidence |-> confidence]

Extraction(invoice_number, vendor) ==
    [invoice_number |-> invoice_number, vendor |-> vendor]

CostAllocation(document_id, total_amount, status, lines, extraction) ==
    [id |-> 0, document_id |-> document_id, total_amount |-> total_amount,
     status |-> status, line_items |-> lines, extraction |-> extraction]

AllocationCatalogue ==
    { CostAllocation(Some(1), Some(500), "allocated",
                     <<AllocationLine(Some("P1"), None, 500, Some(950))>>,
                     Some(Extraction("INV-1", "Acme"))),
      CostAllocation(Some(2), Some(15000), "review_needed",
                     <<AllocationLine(Some("P2"), Some("P1"), 15000, Some(700))>>,
                     Some(Extraction("INV-1", "ACME"))),
      CostAllocation(None, Some(15000), "approved", <<>>, None),
      CostAllocation(Some(3), None, "pending",
                     <<AllocationLine(Some("P2"), None, 2000, None),
                       AllocationLine(Some("P2"), Some(""), 1000, Some(0)),
                       AllocationLine(None, None, 100, Some(900))>>,
                     Some(Extraction("", "Globex"))) }

MaxAllocations == 2

MaxScans == 2

\* document_id of a scan: every allocation, or those of one document.
ScanDocuments == {None, Some(1), Some(2)}

\* The rows of cost_allocations; the id of a row is its position.
AllocationTables ==
    { [i \in DOMAIN q |-> [q[i] EXCEPT !.id = i]] :
        q \in SeqsUpTo(AllocationCatalogue, MaxAllocations) }

\* Inputs of detect_duplicate: earlier records of one invoice number in two
\* spellings and of another number, 5, 50 and 100 days old on day 100.
ExistingInvoiceCatalogue ==
    { ExistingInvoice("INV-1", "ACME", 1, Some(95)),
      ExistingInvoice("inv-1", "Acme", 2, Some(50)),
      ExistingInvoice("INV-1", "Acme", 3, Some(0)),
      ExistingInvoice("INV-2", "Acme", 4, Some(95)) }

MaxExistingInvoices == 2

\* Scans, successful resolutions and successful reviews of a behaviour that
\* follows the flags of one allocation.
MaxFlagSteps == 3

\* Steps so far: one per scan, one per tick of the clock.
FlagSteps == anomaly_scan.scans + (clock - 1)

\* The table cost_allocations of such a behaviour, one row: an allocation
\* over budget by 20%, a high-value allocation that is not approved, or an
\* approved one.
ReviewedAllocationTables ==
    { <<[a EXCEPT !.id = 1]>> :
        a \in { CostAllocation(Some(3), None, "pending",
                               <<AllocationLine(Some("P2"), None, 3000, None)>>,
                               Some(Extraction("", "Globex"))),
                CostAllocation(None, Some(15000), "review_needed", <<>>, None),
                CostAllocation(None, Some(15000), "approved", <<>>, None) } }

NoAnomalyScan ==
    [allocations |-> <<>>, anomaly_flags |-> <<>>, scans |-> 0, returned |-> 0]

\* ------------------------------------------------------------------------
\* Bounds and inputs of the review queue
\* ------------------------------------------------------------------------
\* Review items created by a behaviour that only creates.
MaxReviewItems == 2

\* Successful HITLService calls (creations and reviews) of a behaviour.
MaxCalls == 4

\* Successful calls so far: one per review item, one per tick of the clock.
Calls == Len(review_queue) + (clock - 1)

ValidActions == {"approve", "reject", "escalate"}

Actions == ValidActions \cup {"invalid"}

\* (reviewed_by, notes) of a review call; "user" is the default reviewer.
ReviewerInputs == { <<"user", None>>, <<"alice", Some("Looks good")>> }

\* (item_type, entity_type, entity_id) of a new review item.
EntityRefs == { <<"cost_allocation", "cost_allocation", 1>> }

DollarAmounts == {None, Some(500), Some(15000)}

Confidences == {None, Some(950)}

AnyDollarAmounts ==
    {None, Some(500), Some(999), Some(1000), Some(5000), Some(9999),
     Some(10000), Some(15000)}

AnyConfidences == {None, Some(700), Some(849), Some(850), Some(950)}

AnySeverities == {None, Some("low")}

\* Configurations of the two dollar thresholds: the defaults, the two
\* thresholds equal, and the auto-approve threshold above the high-risk one.
AnyHITLSettings ==
    { HITLSettings(DefaultAutoApproveThreshold, DefaultHighRiskThreshold),
      HITLSettings(DefaultAutoApproveThreshold, DefaultAutoApproveThreshold),
      HITLSettings(DefaultHighRiskThreshold, DefaultAutoApproveThreshold) }

NoCall == [op |-> "none", outcome |-> "ok", item_id |-> 0, action |-> "none",
           reviewed_by |-> "none", notes |-> None,
           dollar_amount |-> None, confidence |-> None]

\* ------------------------------------------------------------------------
\* Initial states
\* ------------------------------------------------------------------------
\* Inputs of match_by_amount and match_by_date.
ScalarAmounts == {None, Some(0), Some(100), Some(101), Some(-100)}

ScalarDates ==
    { DateField("missing", 0), DateField("invalid", 0), DateField("iso", 1),
      DateField("iso", 3), DateField("iso_naive", 1) }

\* Allocations the trigger is asked about.
TriggerAmounts == {None, Some(500), Some(5000), Some(15000)}

TriggerConfidences == {None, Some(700), Some(870), Some(950)}

\* Settings of the trigger: the defaults, a stricter confidence threshold,
\* a looser one, and the dollar thresholds equal.
AnyAllocationSettings ==
    { AllocationSettings(DefaultAutoApproveThreshold, high, confidence) :
        high \in {DefaultHighRiskThreshold, DefaultAutoApproveThreshold},
        confidence \in {ConfidenceThreshold, 900, 800} }

\* Review items in the queue when two requests race.
MaxRaceItems == 1

\* Two concurrent requests: one by alice with notes, one by the default
\* reviewer.
RacingSessions ==
    { <<Session(i, a, "alice", Some("Looks good")),
        Session(j, b, "user", None)>> :
        i \in 1..MaxRaceItems, j \in 1..MaxRaceItems,
        a \in Actions, b \in Actions }

NoSessions == <<>>

NoDuplicateCheck == [pc |-> "idle", invoice_number |-> "", vendor |-> "",
                     existing_invoices |-> <<>>, window_days |-> 0,
                     today |-> 0, result |-> NoResult]

NoScalarMatch == [pc |-> "idle", amount_a |-> None, amount_b |-> None,
                  tolerance_pct |-> 0, date_a |-> DateField("missing", 0),
                  date_b |-> DateField("missing", 0), tolerance_days |-> 0,
                  amount_result |-> NoResult, date_result |-> NoResult]

NoNumeric == [value_a |-> None, value_b |-> None, tolerance_pct |-> 0,
              tolerance_abs |-> 0, pc |-> "idle", result |-> NoResult]

NoLineItems == [po_items |-> <<>>, invoice_items |-> <<>>,
                pc |-> "idle", result |-> NoResult]

NoThreeWay == [po_data |-> None, bol_data |-> None, invoice_data |-> None,
               pc |-> "idle", result |-> NoResult]

InitMatching ==
    /\ numeric = NoNumeric
    /\ line_items = NoLineItems
    /\ three_way = NoThreeWay

\* No request in flight and no pure detector or matcher called.
InitCalls ==
    /\ sessions = NoSessions
    /\ duplicate_check = NoDuplicateCheck
    /\ scalar_match = NoScalarMatch

InitQueue ==
    /\ review_queue = <<>>
    /\ audit_events = <<>>
    /\ clock = 1
    /\ last_call = NoCall
    /\ InitCalls

InitEngines ==
    /\ reconciliation = NoReconciliation
    /\ anomaly_scan = NoAnomalyScan

InitHITL ==
    /\ InitMatching
    /\ InitQueue
    /\ InitEngines
    /\ hitl_settings = HITLSettings(DefaultAutoApproveThreshold,
                                    DefaultHighRiskThreshold)

InitCreate ==
    /\ InitMatching
    /\ InitQueue
    /\ InitEngines
    /\ hitl_settings \in AnyHITLSettings

InitNumeric ==
    /\ numeric \in [value_a : NumericValues, value_b : NumericValues,
                    tolerance_pct : TolerancePcts, tolerance_abs : ToleranceAbs,
                    pc : {"call"}, result : {NoResult}]
    /\ line_items = NoLineItems
    /\ three_way = NoThreeWay
    /\ InitQueue
    /\ InitEngines
    /\ hitl_settings = HITLSettings(DefaultAutoApproveThreshold,
                                    DefaultHighRiskThreshold)

InitLineItems ==
    /\ numeric = NoNumeric
    /\ line_items \in [po_items : SeqsUpTo(LineItemCatalogue, MaxPoItems),
                       invoice_items : SeqsUpTo(LineItemCatalogue, MaxInvoiceItems),
                       pc : {"call"}, result : {NoResult}]
    /\ three_way = NoThreeWay
    /\ InitQueue
    /\ InitEngines
    /\ hitl_settings = HITLSettings(DefaultAutoApproveThreshold,
                                    DefaultHighRiskThreshold)

InitReconciliation ==
    /\ InitMatching
    /\ InitQueue
    /\ reconciliation \in [pc : {"call"},
                           tms_rows : SeqsUpTo(RowCatalogue, MaxTmsRows),
                           erp_rows : SeqsUpTo(RowCatalogue, MaxErpRows),
                           run : {None}, records : {<<>>}]
    /\ anomaly_scan = NoAnomalyScan
    /\ hitl_settings = HITLSettings(DefaultAutoApproveThreshold,
                                    DefaultHighRiskThreshold)

InitAnomaly ==
    /\ InitMatching
    /\ InitQueue
    /\ reconciliation = NoReconciliation
    /\ anomaly_scan \in [allocations : AllocationTables,
                         anomaly_flags : {<<>>}, scans : {0}, returned : {0}]
    /\ hitl_settings = HITLSettings(DefaultAutoApproveThreshold,
                                    DefaultHighRiskThreshold)

InitAnomalyReview ==
    /\ InitMatching
    /\ InitQueue
    /\ reconciliation = NoReconciliation
    /\ anomaly_scan \in [allocations : ReviewedAllocationTables,
                         anomaly_flags : {<<>>}, scans : {0}, returned : {0}]
    /\ hitl_settings = HITLSettings(DefaultAutoApproveThreshold,
                                    DefaultHighRiskThreshold)

InitDuplicate ==
    /\ InitMatching
    /\ review_queue = <<>>
    /\ audit_events = <<>>
    /\ clock = 1
    /\ last_call = NoCall
    /\ InitEngines
    /\ sessions = NoSessions
    /\ scalar_match = NoScalarMatch
    /\ duplicate_check \in
           [pc : {"call"}, invoice_number : {"INV-1", "inv-1"},
            vendor : {"Acme", "ACME", "Globex"},
            existing_invoices :
                SeqsUpTo(ExistingInvoiceCatalogue, MaxExistingInvoices),
            window_days : {30, DuplicateWindowDays}, today : {100},
            result : {NoResult}]
    /\ hitl_settings = HITLSettings(DefaultAutoApproveThreshold,
                                    DefaultHighRiskThreshold)

InitAllocationReview ==
    /\ InitMatching
    /\ InitQueue
    /\ InitEngines
    /\ hitl_settings \in AnyAllocationSettings

InitScalarMatch ==
    /\ InitMatching
    /\ review_queue = <<>>
    /\ audit_events = <<>>
    /\ clock = 1
    /\ last_call = NoCall
    /\ InitEngines
    /\ sessions = NoSessions
    /\ duplicate_check = NoDuplicateCheck
    /\ scalar_match \in
           [pc : {"call"}, amount_a : ScalarAmounts, amount_b : ScalarAmounts,
            tolerance_pct : {0, AmountTolerancePct},
            date_a : ScalarDates, date_b : ScalarDates,
            tolerance_days : {0, DateToleranceDays},
            amount_result : {NoResult}, date_result : {NoResult}]
    /\ hitl_settings = HITLSettings(DefaultAutoApproveThreshold,
                                    DefaultHighRiskThreshold)

InitRace ==
    /\ InitMatching
    /\ review_queue = <<>>
    /\ audit_events = <<>>
    /\ clock = 1
    /\ last_call = NoCall
    /\ InitEngines
    /\ sessions \in RacingSessions
    /\ duplicate_check = NoDuplicateCheck
    /\ scalar_match = NoScalarMatch
    /\ hitl_settings = HITLSettings(DefaultAutoApproveThreshold,
                                    DefaultHighRiskThreshold)

InitThreeWay ==
    /\ numeric = NoNumeric
    /\ line_items = NoLineItems
    /\ three_way \in [po_data : PurchaseOrders, bol_data : BillsOfLading,
                      invoice_data : Invoices,
                      pc : {"call"}, result : {NoResult}]
    /\ InitQueue
    /\ InitEngines
    /\ hitl_settings = HITLSettings(DefaultAutoApproveThreshold,
                                    DefaultHighRiskThreshold)

\* ------------------------------------------------------------------------
\* Actions
\* ------------------------------------------------------------------------
queue_vars == <<review_queue, audit_events, clock, hitl_settings, last_call>>

matching_vars == <<numeric, line_items, three_way>>

engine_vars == <<reconciliation, anomaly_scan>>

call_vars == <<sessions, duplicate_check, scalar_match>>

MatchNumeric ==
    /\ numeric.pc = "call"
    /\ numeric' = [numeric EXCEPT
                       !.pc = "done",
                       !.result = match_numeric(numeric.value_a, numeric.value_b,
                                                numeric.tolerance_pct,
                                                numeric.tolerance_abs)]
    /\ UNCHANGED <<line_items, three_way, queue_vars, engine_vars, call_vars>>

MatchLineItems ==
    /\ line_items.pc = "call"
    /\ line_items' = [line_items EXCEPT
                          !.pc = "done",
                          !.result = match_line_items(line_items.po_items,
                                                      line_items.invoice_items,
                                                      MATCH_TOLERANCES)]
    /\ UNCHANGED <<numeric, three_way, queue_vars, engine_vars, call_vars>>

ComputeThreeWayMatch ==
    /\ three_way.pc = "call"
    /\ three_way' = [three_way EXCEPT
                         !.pc = "done",
                         !.result = compute_three_way_match(
                                        three_way.po_data, three_way.bol_data,
                                        three_way.invoice_data, MATCH_TOLERANCES)]
    /\ UNCHANGED <<numeric, line_items, queue_vars, engine_vars, call_vars>>

CreateReviewItem ==
    /\ Calls < MaxCalls
    /\ \E ref \in EntityRefs, amount \in DollarAmounts, conf \in Confidences :
           create_review_item(ref[1], ref[3], ref[2], None, amount, conf)
    /\ UNCHANGED <<matching_vars, engine_vars, call_vars>>

CreateAnyReviewItem ==
    /\ Len(review_queue) < MaxReviewItems
    /\ \E severity \in AnySeverities, amount \in AnyDollarAmounts,
          conf \in AnyConfidences :
           create_review_item("cost_allocation", 1, "cost_allocation",
                              severity, amount, conf)
    /\ UNCHANGED <<matching_vars, engine_vars, call_vars>>

ReviewItem ==
    /\ Calls < MaxCalls
    /\ \E item_id \in 1..(Len(review_queue) + 1), action \in Actions,
          who \in ReviewerInputs :
           review_item(item_id, action, who[1], who[2])
    /\ UNCHANGED <<matching_vars, engine_vars, call_vars>>

\* ------------------------------------------------------------------------
\* Specifications
\* ------------------------------------------------------------------------
RunReconciliation ==
    /\ reconciliation.pc = "call"
    /\ \E run_by \in RunBy : run_reconciliation(run_by)
    /\ UNCHANGED <<matching_vars, clock, hitl_settings, last_call, anomaly_scan,
                   call_vars>>

Scan ==
    /\ anomaly_scan.scans < MaxScans
    /\ \E document_id \in ScanDocuments : scan(document_id)
    /\ UNCHANGED <<matching_vars, clock, hitl_settings, last_call, reconciliation,
                   call_vars>>

ShouldReviewAllocation ==
    /\ last_call.op = "none"
    /\ \E amount \in TriggerAmounts, conf \in TriggerConfidences :
           review_trigger(amount, conf)
    /\ UNCHANGED <<matching_vars, engine_vars, call_vars, review_queue,
                   audit_events, clock, hitl_settings>>

\* The review item of the allocation that the trigger was asked about.
CreateTriggeredReviewItem ==
    /\ last_call.op = "should_review_allocation"
    /\ \E severity \in AnySeverities :
           create_review_item("cost_allocation", 1, "cost_allocation",
                              severity, last_call.dollar_amount,
                              last_call.confidence)
    /\ UNCHANGED <<matching_vars, engine_vars, call_vars>>

\* The item that the racing requests act on is created.
CreateRaceItem ==
    /\ Len(review_queue) < MaxRaceItems
    /\ \E ref \in EntityRefs, amount \in DollarAmounts, conf \in Confidences :
           create_review_item(ref[1], ref[3], ref[2], None, amount, conf)
    /\ UNCHANGED <<matching_vars, engine_vars, call_vars>>

SessionLoad ==
    \E s \in DOMAIN sessions :
        /\ sessions[s].pc = "start"
        /\ session_load(s)
        /\ UNCHANGED <<matching_vars, engine_vars, review_queue, audit_events,
                       clock, hitl_settings, last_call, duplicate_check,
                       scalar_match>>

SessionFlush ==
    \E s \in DOMAIN sessions :
        /\ sessions[s].pc = "loaded"
        /\ session_flush(s)
        /\ UNCHANGED <<matching_vars, engine_vars, audit_events,
                       hitl_settings, last_call, duplicate_check,
                       scalar_match>>

SessionLog ==
    \E s \in DOMAIN sessions :
        /\ sessions[s].pc = "flushed"
        /\ session_log(s)
        /\ UNCHANGED <<matching_vars, engine_vars, review_queue, clock,
                       hitl_settings, last_call, duplicate_check,
                       scalar_match>>

ScalarMatch ==
    /\ scalar_match.pc = "call"
    /\ scalar_match' =
           [scalar_match EXCEPT
               !.pc = "done",
               !.amount_result = match_by_amount(scalar_match.amount_a,
                                                 scalar_match.amount_b,
                                                 scalar_match.tolerance_pct),
               !.date_result = match_by_date(scalar_match.date_a,
                                             scalar_match.date_b,
                                             scalar_match.tolerance_days)]
    /\ UNCHANGED <<matching_vars, queue_vars, engine_vars, sessions,
                   duplicate_check>>

DetectDuplicate ==
    /\ duplicate_check.pc = "call"
    /\ duplicate_check' =
           [duplicate_check EXCEPT
               !.pc = "done",
               !.result = detect_duplicate(duplicate_check.invoice_number,
                                           duplicate_check.vendor,
                                           duplicate_check.existing_invoices,
                                           duplicate_check.window_days)]
    /\ UNCHANGED <<matching_vars, queue_vars, engine_vars, sessions,
                   scalar_match>>

\* A resolution request; "user" is the default of resolved_by.
ResolveAnomaly ==
    /\ FlagSteps < MaxFlagSteps
    /\ \E anomaly_id \in 1..(Len(anomaly_scan.anomaly_flags) + 1),
          who \in ReviewerInputs :
           resolve_anomaly(anomaly_id, who[1], who[2])
    /\ UNCHANGED <<matching_vars, review_queue, hitl_settings, reconciliation,
                   call_vars>>

\* A review action by the default reviewer on an item that a scan queued.
ReviewQueuedItem ==
    /\ FlagSteps < MaxFlagSteps
    /\ \E item_id \in 1..(Len(review_queue) + 1), action \in ValidActions :
           review_item(item_id, action, "user", None)
    /\ UNCHANGED <<matching_vars, engine_vars, call_vars>>

\* A scan of every allocation.
ScanAllocations ==
    /\ FlagSteps < MaxFlagSteps
    /\ scan(None)
    /\ UNCHANGED <<matching_vars, clock, hitl_settings, last_call, reconciliation,
                   call_vars>>

NextNumeric == MatchNumeric

SpecNumeric == InitNumeric /\ [][NextNumeric]_vars

NextLineItems == MatchLineItems

SpecLineItems == InitLineItems /\ [][NextLineItems]_vars

NextThreeWay == ComputeThreeWayMatch

SpecThreeWay == InitThreeWay /\ [][NextThreeWay]_vars

NextCreate == CreateAnyReviewItem

SpecCreate == InitCreate /\ [][NextCreate]_vars

NextHITL == CreateReviewItem \/ ReviewItem

NextReconciliation == RunReconciliation

SpecReconciliation == InitReconciliation /\ [][NextReconciliation]_vars

NextAnomaly == Scan

SpecAnomaly == InitAnomaly /\ [][NextAnomaly]_vars

SpecHITL == InitHITL /\ [][NextHITL]_vars

NextAllocationReview == ShouldReviewAllocation \/ CreateTriggeredReviewItem

SpecAllocationReview == InitAllocationReview /\ [][NextAllocationReview]_vars

NextRace == CreateRaceItem \/ SessionLoad \/ SessionFlush \/ SessionLog

SpecRace == InitRace /\ [][NextRace]_vars

NextScalarMatch == ScalarMatch

SpecScalarMatch == InitScalarMatch /\ [][NextScalarMatch]_vars

NextDuplicate == DetectDuplicate

SpecDuplicate == InitDuplicate /\ [][NextDuplicate]_vars

\* Scans, resolutions and reviews of the review items the scans queued.
NextAnomalyReview == ScanAllocations \/ ResolveAnomaly \/ ReviewQueuedItem

SpecAnomalyReview == InitAnomalyReview /\ [][NextAnomalyReview]_vars

\* ------------------------------------------------------------------------
\* Properties of the review queue
\* ------------------------------------------------------------------------
TerminalStatuses == {APPROVED, REJECTED, ESCALATED, AUTO_APPROVED}

IsActioned(e) == e.event_type = "REVIEW_ITEM_ACTIONED"

\* C1 (as stated): a review item in a terminal state (approved, rejected,
\* escalated, auto_approved) is never moved to a different status, so its
\* status changes at most once.
C1_TerminalStatusIsFinal ==
    [][\A i \in DOMAIN review_queue :
           review_queue[i].status \in TerminalStatuses
               => review_queue'[i].status = review_queue[i].status]_vars

\* C1 (amended): the status of a review item changes only in a successful
\* review_item call on that item, which sets it to the status of its action
\* (approved, rejected or escalated), whatever the status before; an item
\* never returns to pending_review or auto_approved.
C1_StatusChangesOnlyByReview ==
    [][\A i \in DOMAIN review_queue :
           review_queue'[i].status # review_queue[i].status
               => /\ last_call'.op = "review_item"
                  /\ last_call'.outcome = "ok"
                  /\ last_call'.item_id = i
                  /\ \/ last_call'.action = "approve"
                        /\ review_queue'[i].status = APPROVED
                     \/ last_call'.action = "reject"
                        /\ review_queue'[i].status = REJECTED
                     \/ last_call'.action = "escalate"
                        /\ review_queue'[i].status = ESCALATED]_vars

\* C1 witness: an item was actioned twice, the second call replacing the
\* terminal status set by the first one.
C1_Witness ==
    \E j, k \in DOMAIN audit_events :
        /\ j < k
        /\ IsActioned(audit_events[j]) /\ IsActioned(audit_events[k])
        /\ audit_events[j].entity_id = audit_events[k].entity_id
        /\ audit_events[k].previous_state = Some([status |-> audit_events[j].new_state.status])
        /\ audit_events[k].new_state.status # audit_events[j].new_state.status
        /\ review_queue[audit_events[k].entity_id].status
               = audit_events[k].new_state.status

\* C2: create_review_item yields auto_approved and auto_approve_eligible
\* exactly when amount and confidence are given, amount < auto-approve
\* threshold, confidence >= 0.85 and amount < high-risk threshold; otherwise
\* pending_review and not eligible.  An amount >= high-risk threshold always
\* yields pending_review.
C2_AutoApprovalPolicy ==
    last_call.op = "create_review_item" =>
        LET item == review_queue[last_call.item_id]
            amount == last_call.dollar_amount
            conf == last_call.confidence
            auto == /\ amount # None
                    /\ conf # None
                    /\ Val(amount) < hitl_settings.auto_approve_threshold
                    /\ Val(conf) >= 850
                    /\ Val(amount) < hitl_settings.high_risk_threshold
        IN  /\ item.status = (IF auto THEN AUTO_APPROVED ELSE PENDING_REVIEW)
            /\ item.auto_approve_eligible = auto
            /\ (amount # None
                /\ Val(amount) >= hitl_settings.high_risk_threshold)
                   => item.status = PENDING_REVIEW

\* C2 witness: an amount below the auto-approve threshold with a high
\* confidence, at or above the high-risk threshold, was created pending.
C2_Witness ==
    /\ last_call.op = "create_review_item"
    /\ last_call.dollar_amount # None
    /\ last_call.confidence # None
    /\ Val(last_call.dollar_amount) < hitl_settings.auto_approve_threshold
    /\ Val(last_call.confidence) >= 850
    /\ Val(last_call.dollar_amount) >= hitl_settings.high_risk_threshold
    /\ review_queue[last_call.item_id].status = PENDING_REVIEW

\* C3: a review_item call with an action other than approve, reject,
\* escalate, or with the id of no existing item, fails and leaves every
\* review item and the audit log as they were.
C3_FailedReviewChangesNothing ==
    [][(/\ last_call'.op = "review_item"
        /\ \/ last_call'.action \notin {"approve", "reject", "escalate"}
           \/ last_call'.item_id \notin DOMAIN review_queue)
           => /\ last_call'.outcome \in {"not_found", "invalid_action"}
              /\ review_queue' = review_queue
              /\ audit_events' = audit_events]_vars

\* C3 witness: an invalid action was refused on an item reviewed before.
C3_Witness ==
    /\ last_call.op = "review_item"
    /\ last_call.outcome = "invalid_action"
    /\ last_call.item_id \in DOMAIN review_queue
    /\ review_queue[last_call.item_id].reviewed_by # None

\* C4: a successful review_item call stamps the item with the call's
\* reviewed_by, the time of the call and the call's notes; every item that is
\* approved, rejected or escalated has reviewed_by and reviewed_at set.
C4_ReviewStamps ==
    /\ \A i \in DOMAIN review_queue :
           review_queue[i].status \in {APPROVED, REJECTED, ESCALATED}
               => /\ review_queue[i].reviewed_by # None
                  /\ review_queue[i].reviewed_at # None
    /\ (last_call.op = "review_item" /\ last_call.outcome = "ok")
           => LET item == review_queue[last_call.item_id]
              IN  /\ item.reviewed_by = Some(last_call.reviewed_by)
                  /\ item.reviewed_at = Some(clock - 1)
                  /\ item.review_notes = last_call.notes

\* C4 witness: an item was approved with notes by a named reviewer.
C4_Witness ==
    /\ last_call.op = "review_item"
    /\ last_call.outcome = "ok"
    /\ last_call.reviewed_by = "alice"
    /\ last_call.notes # None
    /\ review_queue[last_call.item_id].status = APPROVED

\* ------------------------------------------------------------------------
\* Properties of the line-item matcher
\* ------------------------------------------------------------------------
LineItemsDone == line_items.pc = "done"

\* C5: no two LineItemMatch records of one result share a non-null
\* invoice_index.
C5_NoDoubleAssignment ==
    LineItemsDone =>
        \A i, j \in DOMAIN line_items.result :
            (i # j /\ line_items.result[i].invoice_index # None)
                => line_items.result[i].invoice_index
                       # line_items.result[j].invoice_index

\* C5 witness: all descriptions identical, two PO items were paired.
C5_Witness ==
    /\ LineItemsDone
    /\ Len(line_items.po_items) >= 2
    /\ Len(line_items.invoice_items) >= 2
    /\ \A i \in DOMAIN line_items.po_items, j \in DOMAIN line_items.invoice_items :
           line_items.po_items[i].description
               = line_items.invoice_items[j].description
    /\ line_items.result[1].invoice_index # None
    /\ line_items.result[2].invoice_index # None

\* Invoice indices (0-based) consumed by the results before position k.
ConsumedBefore(k) ==
    { Val(line_items.result[j].invoice_index) :
        j \in { jj \in 1..(k - 1) : line_items.result[jj].invoice_index # None } }

\* Description score of PO item k (1-based position) and invoice index m.
DescScore(k, m) ==
    match_description(line_items.po_items[k].description,
                      line_items.invoice_items[m + 1].description)[2]

\* C6: one LineItemMatch per PO item, in PO order; its invoice_index is a
\* not-yet-consumed invoice item of the highest description score when that
\* score is >= 0.3, otherwise it is null with overall 0.0 and a note.
C6_OneResultPerPoItem ==
    LineItemsDone =>
        /\ Len(line_items.result) = Len(line_items.po_items)
        /\ \A k \in DOMAIN line_items.result :
               LET r == line_items.result[k]
                   free == (0..(Len(line_items.invoice_items) - 1))
                               \ ConsumedBefore(k)
               IN  /\ r.po_index = k - 1
                   /\ IF \E m \in free : DescScore(k, m) >= 300
                      THEN /\ r.invoice_index # None
                           /\ Val(r.invoice_index) \in free
                           /\ \A m \in free :
                                  DescScore(k, Val(r.invoice_index))
                                      >= DescScore(k, m)
                      ELSE /\ r.invoice_index = None
                           /\ r.overall = 0
                           /\ r.notes # <<>>

\* C6 witness: one PO item was paired with an invoice item that is not the
\* first candidate of a positive score, another PO item stayed unpaired
\* although a candidate had a positive score.
C6_Witness ==
    /\ LineItemsDone
    /\ \E k \in DOMAIN line_items.result :
           /\ line_items.result[k].invoice_index # None
           /\ \E m \in 0..(Val(line_items.result[k].invoice_index) - 1) :
                  /\ m \notin ConsumedBefore(k)
                  /\ DescScore(k, m) > 0
    /\ \E k \in DOMAIN line_items.result :
           /\ line_items.result[k].invoice_index = None
           /\ line_items.result[k].description_match > 0

\* ------------------------------------------------------------------------
\* Properties of match_numeric
\* ------------------------------------------------------------------------
NumericDone == numeric.pc = "done"

BothPresent == numeric.value_a # None /\ numeric.value_b # None

\* C7: match_numeric(a, b, p, t) = match_numeric(b, a, p, t).
C7_NumericCommutative ==
    NumericDone =>
        numeric.result = match_numeric(numeric.value_b, numeric.value_a,
                                       numeric.tolerance_pct,
                                       numeric.tolerance_abs)

\* C7 witness: two different non-zero values matched within tolerance.
C7_Witness ==
    /\ NumericDone
    /\ BothPresent
    /\ Val(numeric.value_a) < Val(numeric.value_b)
    /\ Val(numeric.value_a) > 0
    /\ numeric.result[1]
    /\ numeric.result[2] < 1000

\* C8 (as stated): two absent values match with confidence 1.0, like two
\* zeros.
C8_BothNullMatches ==
    (NumericDone /\ numeric.value_a = None /\ numeric.value_b = None)
        => numeric.result = <<TRUE, 1000>>

\* C8 (amended): two absent values do not match, the result is
\* (false, 0.0); two zeros match with confidence 1.0.
C8_BothNullNoMatch ==
    NumericDone =>
        /\ (numeric.value_a = None /\ numeric.value_b = None)
               => numeric.result = <<FALSE, 0>>
        /\ (numeric.value_a = Some(0) /\ numeric.value_b = Some(0))
               => numeric.result = <<TRUE, 1000>>

\* C8 witness: match_numeric was called with two absent values.
C8_Witness ==
    NumericDone /\ numeric.value_a = None /\ numeric.value_b = None

\* C9: exactly one null or exactly one zero gives (false, 0.0); two non-zero
\* values match iff |a-b|/max(|a|,|b|) <= tolerance_pct or
\* |a-b| <= tolerance_abs; a match has a confidence in [0.8, 1.0], a
\* non-match has confidence 0.0.
C9_NumericResult ==
    NumericDone =>
        LET a == numeric.value_a
            b == numeric.value_b
        IN  /\ ((a = None) # (b = None)) => numeric.result = <<FALSE, 0>>
            /\ (BothPresent /\ ((Val(a) = 0) # (Val(b) = 0)))
                   => numeric.result = <<FALSE, 0>>
            /\ (BothPresent /\ Val(a) # 0 /\ Val(b) # 0)
                   => LET diff == Abs(Val(a) - Val(b))
                          largest == IF Abs(Val(a)) >= Abs(Val(b))
                                     THEN Abs(Val(a)) ELSE Abs(Val(b))
                      IN  /\ numeric.result[1]
                              <=> \/ 1000 * diff <= numeric.tolerance_pct * largest
                                  \/ diff <= numeric.tolerance_abs
                          /\ numeric.result[1]
                                 => /\ numeric.result[2] >= 800
                                    /\ numeric.result[2] <= 1000
                          /\ ~numeric.result[1] => numeric.result[2] = 0

\* C9 witness: two different non-zero values at the boundary of the
\* percentage tolerance matched with the lowest confidence.
C9_Witness ==
    /\ NumericDone
    /\ BothPresent
    /\ Val(numeric.value_a) # 0 /\ Val(numeric.value_b) # 0
    /\ Val(numeric.value_a) # Val(numeric.value_b)
    /\ numeric.tolerance_abs = 0
    /\ numeric.result = <<TRUE, 800>>

\* ------------------------------------------------------------------------
\* Properties of the three-way match
\* ------------------------------------------------------------------------
ThreeWayDone == three_way.pc = "done"

Absent ==
    (IF three_way.po_data = None THEN {"purchase_order"} ELSE {})
    \cup (IF three_way.bol_data = None
          THEN {"bill_of_lading_or_packing_list"} ELSE {})
    \cup (IF three_way.invoice_data = None THEN {"commercial_invoice"} ELSE {})

Range(q) == {q[i] : i \in DOMAIN q}

\* C10: with two or more documents absent the result is incomplete with
\* confidence 0.0, names every absent document and holds no field or
\* line-item match.
C10_IncompleteEarlyReturn ==
    (ThreeWayDone /\ Cardinality(Absent) >= 2) =>
        /\ three_way.result.status = "incomplete"
        /\ three_way.result.overall_confidence = 0
        /\ Range(three_way.result.missing_documents) = Absent
        /\ Len(three_way.result.missing_documents) = Cardinality(Absent)
        /\ three_way.result.field_matches = <<>>
        /\ three_way.result.line_item_matches = <<>>

\* C10 witness: only an invoice with line items was given.
C10_Witness ==
    /\ ThreeWayDone
    /\ three_way.po_data = None
    /\ three_way.bol_data = None
    /\ three_way.invoice_data # None
    /\ Val(three_way.invoice_data).line_items # <<>>
    /\ three_way.result.status = "incomplete"

\* The scores that enter the mean: confidences of the matched fields and
\* positive overall scores of the line items of the result.
ResultScores ==
    LET fm == SelectSeq(three_way.result.field_matches, IsMatchedField)
        lm == SelectSeq(three_way.result.line_item_matches, HasPositiveOverall)
    IN  [i \in 1..Len(fm) |-> fm[i].confidence]
        \o [i \in 1..Len(lm) |-> lm[i].overall]

EveryFieldMatched ==
    \A i \in DOMAIN three_way.result.field_matches :
        three_way.result.field_matches[i].matched

EveryLineAtLeastHalf ==
    \A i \in DOMAIN three_way.result.line_item_matches :
        three_way.result.line_item_matches[i].overall >= 500

ScoreStatuses == {"full_match", "partial_match", "mismatch"}

\* C11 as stated: incomplete is produced only when at least two of the three
\* documents are absent; with at most one absent the status is full_match,
\* partial_match or mismatch.
C11_IncompleteOnlyWhenTwoAbsent ==
    ThreeWayDone =>
        /\ (three_way.result.status = "incomplete" => Cardinality(Absent) >= 2)
        /\ (Cardinality(Absent) <= 1 => three_way.result.status \in ScoreStatuses)

\* C11 amended: incomplete is produced exactly when at least one of the
\* three documents is absent; only when none is absent is the status
\* full_match, partial_match or mismatch.
C11_IncompleteIffAnyAbsent ==
    ThreeWayDone =>
        /\ (three_way.result.status = "incomplete" <=> Absent # {})
        /\ (Absent = {} <=> three_way.result.status \in ScoreStatuses)

\* C11 witness: only the bill of lading is absent, PO and invoice agree on
\* every field and line item with a mean score of at least 0.8, and the
\* status is incomplete all the same.
C11_Witness ==
    /\ ThreeWayDone
    /\ Absent = {"bill_of_lading_or_packing_list"}
    /\ three_way.result.field_matches # <<>>
    /\ three_way.result.line_item_matches # <<>>
    /\ EveryFieldMatched
    /\ EveryLineAtLeastHalf
    /\ three_way.result.overall_confidence >= 800
    /\ three_way.result.status = "incomplete"

\* C12: with exactly one document absent the status is incomplete and
\* missing_documents names the absent document (and nothing else).
C12_OneAbsentIsIncomplete ==
    (ThreeWayDone /\ Cardinality(Absent) = 1) =>
        /\ three_way.result.status = "incomplete"
        /\ Range(three_way.result.missing_documents) = Absent
        /\ Len(three_way.result.missing_documents) = 1

\* C12 witness: the purchase order alone is absent; nothing is compared and
\* the result names the purchase order.
C12_Witness ==
    /\ ThreeWayDone
    /\ three_way.po_data = None
    /\ Truthy(three_way.bol_data)
    /\ Truthy(three_way.invoice_data)
    /\ three_way.result.status = "incomplete"
    /\ three_way.result.missing_documents = <<"purchase_order">>
    /\ three_way.result.field_matches = <<>>

\* C13: with all three documents present the status is mismatch when no
\* score enters the mean; else full_match when every field matched, every
\* line item has overall >= 0.5 and the mean is >= 0.8; else partial_match
\* when the mean is >= 0.5; else mismatch.  A full_match result holds no
\* unmatched field and no line item with a null invoice_index.
C13_StatusFromScores ==
    (ThreeWayDone /\ Absent = {}) =>
        LET scores == ResultScores
            total == SumSeq(scores)
            n == Len(scores)
        IN  /\ three_way.result.status =
                   IF n = 0 THEN "mismatch"
                   ELSE IF EveryFieldMatched /\ EveryLineAtLeastHalf
                           /\ total >= 800 * n
                   THEN "full_match"
                   ELSE IF total >= 500 * n THEN "partial_match"
                   ELSE "mismatch"
            /\ three_way.result.status = "full_match" =>
                   /\ EveryFieldMatched
                   /\ \A i \in DOMAIN three_way.result.line_item_matches :
                          three_way.result.line_item_matches[i].invoice_index
                              # None

\* C13 witness: all documents present, both fields matched and the mean is
\* at least 0.8, yet a line item scores below 0.5 and the status is
\* partial_match.
C13_Witness ==
    /\ ThreeWayDone
    /\ Absent = {}
    /\ EveryFieldMatched
    /\ three_way.result.field_matches # <<>>
    /\ ~EveryLineAtLeastHalf
    /\ SumSeq(ResultScores) >= 800 * Len(ResultScores)
    /\ three_way.result.status = "partial_match"

ReconciliationDone == reconciliation.pc = "done"

Records == reconciliation.records

Run == Val(reconciliation.run)

TmsRecords == {r \in DOMAIN Records : Records[r].source = "tms"}

ErpRecords == {r \in DOMAIN Records : Records[r].source = "erp"}

\* The review items that refer to the run.
RunReviewItems ==
    {i \in DOMAIN review_queue :
        /\ review_queue[i].entity_type = "reconciliation_run"
        /\ review_queue[i].entity_id = Run.id}

\* C14: after a run, whenever record r has matched_with_id = s, record s has
\* matched_with_id = r, and both carry the same match_status,
\* match_confidence and mismatch_details, for every record population.
C14_PairingSymmetric ==
    ReconciliationDone =>
        \A r \in DOMAIN Records :
            Records[r].matched_with_id # None =>
                LET s == Val(Records[r].matched_with_id)
                IN  /\ Records[s].matched_with_id = Some(r)
                    /\ Records[s].match_status = Records[r].match_status
                    /\ Records[s].match_confidence = Records[r].match_confidence
                    /\ Records[s].mismatch_details = Records[r].mismatch_details

\* C15: when the run returns no record is pending: a TMS record whose
\* normalized reference no ERP record shares is a mismatch without partner,
\* an ERP record that no TMS record points to is a mismatch, a paired record
\* is matched or mismatch, and the run is no longer pending.
C15_NoRecordLeftPending ==
    ReconciliationDone =>
        /\ \A r \in DOMAIN Records : Records[r].match_status # "pending"
        /\ \A t \in TmsRecords :
               (\A e \in ErpRecords : ref_key(Records[e]) # ref_key(Records[t]))
               => /\ Records[t].match_status = "mismatch"
                  /\ Records[t].matched_with_id = None
        /\ \A e \in ErpRecords :
               (\A t \in TmsRecords : Records[t].matched_with_id # Some(e))
               => /\ Records[e].match_status = "mismatch"
                  /\ Records[e].matched_with_id = None
        /\ \A r \in DOMAIN Records :
               Records[r].matched_with_id # None
               => Records[r].match_status \in {"matched", "mismatch"}
        /\ Run.status # "pending"

\* C15 witness: a run with a TMS record without counterpart, an ERP record
\* marked as unmatched by the last pass, and a matched pair.
C15_Witness ==
    /\ ReconciliationDone
    /\ \E t \in TmsRecords :
           /\ Records[t].matched_with_id = None
           /\ Records[t].match_status = "mismatch"
    /\ \E e \in ErpRecords :
           /\ Records[e].matched_with_id = None
           /\ Records[e].match_reasoning = Some("No matching TMS record found")
    /\ \E t \in TmsRecords : Records[t].match_status = "matched"

\* C16: the run is matched iff it has no mismatch, partial_match iff it has a
\* mismatch and a matched pair, mismatch iff it has a mismatch and no matched
\* pair; the counts are those of the records.
C16_RunStatus ==
    ReconciliationDone =>
        LET has_mismatch ==
                \E r \in DOMAIN Records : Records[r].match_status = "mismatch"
            has_matched ==
                \E t \in TmsRecords : Records[t].match_status = "matched"
        IN  /\ (Val(Run.mismatch_count) > 0) = has_mismatch
            /\ (Val(Run.matched_count) > 0) = has_matched
            /\ (Run.status = "matched") = ~has_mismatch
            /\ (Run.status = "partial_match") = (has_mismatch /\ has_matched)
            /\ (Run.status = "mismatch") = (has_mismatch /\ ~has_matched)

\* C16 witness: a run of two TMS records, one matched and one mismatched,
\* ends as a partial match.
C16_Witness ==
    /\ ReconciliationDone
    /\ Run.status = "partial_match"
    /\ Val(Run.matched_count) = 1
    /\ Val(Run.mismatch_count) >= 1
    /\ Val(Run.match_rate) = 5000

\* C17: the run gets a review item (pending_review, reconciliation_mismatch,
\* entity_id the run's id) exactly when it has at least one mismatch or its
\* match rate is below 90%.
C17_ReviewIffMismatchOrLowRate ==
    ReconciliationDone =>
        /\ (RunReviewItems # {})
               = (Val(Run.mismatch_count) >= 1 \/ Val(Run.match_rate) < 9000)
        /\ Cardinality(RunReviewItems) <= 1
        /\ \A i \in RunReviewItems :
               /\ review_queue[i].status = PENDING_REVIEW
               /\ review_queue[i].item_type = "reconciliation_mismatch"

\* A missing reference number: null or blank.
MissingReference(rec) ==
    rec.reference_number = None \/ NormalizeRef(Val(rec.reference_number)) = ""

\* C18: a record without reference number is never paired: it has no
\* partner, no record points to it, and a TMS record without reference is
\* classified as having no counterpart.
C18_MissingReferenceNeverPaired ==
    ReconciliationDone =>
        \A r \in DOMAIN Records :
            MissingReference(Records[r]) =>
                /\ Records[r].matched_with_id = None
                /\ \A s \in DOMAIN Records : Records[s].matched_with_id # Some(r)
                /\ Records[r].source = "tms" =>
                       /\ Records[r].match_status = "mismatch"
                       /\ Records[r].match_reasoning =
                              Some("No matching ERP record found")

AnomalyFlags == anomaly_scan.anomaly_flags

\* The review items that refer to an anomaly flag.
FlagReviewItems(flag) ==
    {i \in DOMAIN review_queue :
        /\ review_queue[i].entity_type = "anomaly_flag"
        /\ review_queue[i].entity_id = flag.id}

\* C19: every flag of severity medium, high or critical created by a scan
\* has exactly one review item, pending_review, of entity_type anomaly_flag
\* and entity_id the flag's id, and the flag's review_item_id is that item's
\* id; a flag of severity low has none.  The trigger asks for a review of
\* every severity but low.
C19_FlagReviewLink ==
    /\ \A f \in DOMAIN AnomalyFlags :
           LET flag == AnomalyFlags[f]
               items == FlagReviewItems(flag)
           IN  IF flag.severity \in {"medium", "high", "critical"}
               THEN /\ Cardinality(items) = 1
                    /\ \A i \in items :
                           /\ review_queue[i].status = PENDING_REVIEW
                           /\ review_queue[i].item_type = "anomaly"
                           /\ flag.review_item_id = Some(review_queue[i].id)
               ELSE /\ items = {}
                    /\ flag.review_item_id = None
    /\ \A severity \in AnomalySeverities :
           should_review_anomaly(severity, "unusual_amount")
               = (severity # "low")

\* C19 witness: one scan has flagged a medium and a high anomaly and linked
\* a review item to each.
C19_Witness ==
    /\ anomaly_scan.scans = 1
    /\ \E f, g \in DOMAIN AnomalyFlags :
           /\ AnomalyFlags[f].severity = "medium"
           /\ AnomalyFlags[g].severity = "high"
           /\ AnomalyFlags[f].review_item_id # None
           /\ AnomalyFlags[g].review_item_id # None
           /\ AnomalyFlags[f].review_item_id # AnomalyFlags[g].review_item_id

\* C20: scanning again over unchanged allocations creates no further flag and
\* no further review item: a finding (an anomaly type on an allocation, and
\* the project code of an overrun) has one flag, whatever the number of scans.
C20_RescanIdempotent ==
    \A f, g \in DOMAIN AnomalyFlags :
        (/\ AnomalyFlags[f].allocation_id = AnomalyFlags[g].allocation_id
         /\ AnomalyFlags[f].anomaly_type = AnomalyFlags[g].anomaly_type
         /\ AnomalyFlags[f].project_code = AnomalyFlags[g].project_code)
        => f = g

\* ------------------------------------------------------------------------
\* Properties of the life of an anomaly flag
\* ------------------------------------------------------------------------
IsResolution(e) == e.event_type = "ANOMALY_RESOLVED"

IsScanCompleted(e) == e.event_type = "ANOMALY_SCAN_COMPLETED"

\* C21: every resolved anomaly flag carries resolved_by and resolved_at; a
\* flag becomes resolved only in a successful resolve call on it, which
\* records the caller and the time of the call; a resolved flag stays
\* resolved; scan, review_item and resolve keep every flag of the table, and
\* a flag that scan adds is unresolved.
C21_ResolvedOnlyByResolve ==
    /\ [](\A i \in DOMAIN AnomalyFlags :
              AnomalyFlags[i].is_resolved
                  => /\ AnomalyFlags[i].resolved_by # None
                     /\ AnomalyFlags[i].resolved_at # None)
    /\ [][LET after == anomaly_scan'.anomaly_flags
          IN  /\ Len(after) >= Len(AnomalyFlags)
              /\ \A i \in DOMAIN AnomalyFlags :
                     /\ after[i].id = AnomalyFlags[i].id
                     /\ AnomalyFlags[i].is_resolved => after[i].is_resolved
                     /\ (~AnomalyFlags[i].is_resolved /\ after[i].is_resolved)
                            => /\ last_call'.op = "resolve_anomaly"
                               /\ last_call'.outcome = "ok"
                               /\ last_call'.item_id = i
                               /\ after[i].resolved_by
                                      = Some(last_call'.reviewed_by)
                               /\ after[i].resolved_at = Some(clock)
              /\ \A i \in DOMAIN after \ DOMAIN AnomalyFlags :
                     ~after[i].is_resolved]_vars

\* C21 witness: a flag was resolved, a later scan added flags, and the flag
\* is still there, resolved, next to the unresolved flags of that scan.
C21_Witness ==
    /\ \E j, k \in DOMAIN audit_events :
           /\ j < k
           /\ IsResolution(audit_events[j])
           /\ IsScanCompleted(audit_events[k])
           /\ audit_events[j].entity_id \in DOMAIN AnomalyFlags
           /\ AnomalyFlags[audit_events[j].entity_id].is_resolved
           /\ AnomalyFlags[audit_events[j].entity_id].resolved_by
                  = Some(audit_events[j].actor)
    /\ \E i \in DOMAIN AnomalyFlags : ~AnomalyFlags[i].is_resolved

\* ------------------------------------------------------------------------
\* Properties of the duplicate detector
\* ------------------------------------------------------------------------
\* Case-insensitive comparison of the invoice numbers of the model.
LowerInvoiceNumber(n) == IF n = "INV-1" THEN "inv-1" ELSE n

\* The existing records that collide with the checked invoice: same invoice
\* number and same vendor, both case-insensitively, and not older than
\* window_days.
CollidingRecords ==
    LET d == duplicate_check
    IN  {i \in DOMAIN d.existing_invoices :
            /\ LowerInvoiceNumber(d.existing_invoices[i].invoice_number)
                   = LowerInvoiceNumber(d.invoice_number)
            /\ LowerVendor(d.existing_invoices[i].vendor)
                   = LowerVendor(d.vendor)
            /\ d.existing_invoices[i].date # None
            /\ d.today - Val(d.existing_invoices[i].date) <= d.window_days}

\* C22: detect_duplicate reports a duplicate exactly when an existing record
\* inside the lookback window has the same invoice number and the same
\* vendor, both compared case-insensitively, and the document id it returns
\* is that of such a record; a record older than window_days is not
\* reported.
C22_DuplicateWithinWindow ==
    duplicate_check.pc = "done" =>
        /\ (duplicate_check.result # None) <=> (CollidingRecords # {})
        /\ duplicate_check.result # None
               => \E i \in CollidingRecords :
                      Val(duplicate_check.result).duplicate_of_document_id
                          = duplicate_check.existing_invoices[i].document_id

\* ------------------------------------------------------------------------
\* Properties of repeated reviews and of the audit log
\* ------------------------------------------------------------------------
\* C23: a review_item call with one of the three valid actions on an item
\* that is approved, rejected, escalated or auto_approved succeeds: it sets
\* the status of the action and overwrites reviewed_by, reviewed_at and
\* review_notes with those of the call.
C23_ReReviewAccepted ==
    [][\A i \in DOMAIN review_queue :
           (/\ review_queue[i].status \in TerminalStatuses
            /\ last_call'.op = "review_item"
            /\ last_call'.item_id = i
            /\ last_call'.action \in ValidActions)
               => /\ last_call'.outcome = "ok"
                  /\ review_queue'[i].status
                         = Val(action_status(last_call'.action))
                  /\ review_queue'[i].reviewed_by
                         = Some(last_call'.reviewed_by)
                  /\ review_queue'[i].reviewed_at = Some(clock)
                  /\ review_queue'[i].review_notes = last_call'.notes]_vars

\* C23 witness: an item reviewed by one reviewer was reviewed again by
\* another one with another action, and carries the status, the reviewer,
\* the time and the notes of the second call.
C23_Witness ==
    /\ last_call.op = "review_item"
    /\ last_call.outcome = "ok"
    /\ \E j, k \in DOMAIN audit_events :
           /\ j < k
           /\ k = Len(audit_events)
           /\ IsActioned(audit_events[j]) /\ IsActioned(audit_events[k])
           /\ audit_events[j].entity_id = last_call.item_id
           /\ audit_events[k].entity_id = last_call.item_id
           /\ audit_events[j].actor # audit_events[k].actor
           /\ audit_events[j].action # audit_events[k].action
           /\ Val(audit_events[k].previous_state).status \in TerminalStatuses
    /\ review_queue[last_call.item_id].status
           = Val(action_status(last_call.action))
    /\ review_queue[last_call.item_id].reviewed_by
           = Some(last_call.reviewed_by)
    /\ review_queue[last_call.item_id].reviewed_at = Some(clock - 1)

\* The audit events of the review calls on item i.
ActionedEvents(i) ==
    {k \in DOMAIN audit_events :
        IsActioned(audit_events[k]) /\ audit_events[k].entity_id = i}

\* Sessions s and t both read item i as pending_review and both returned.
RacedOn(s, t, i) ==
    /\ s # t
    /\ sessions[s].item_id = i /\ sessions[t].item_id = i
    /\ sessions[s].previous_status = Some(PENDING_REVIEW)
    /\ sessions[t].previous_status = Some(PENDING_REVIEW)
    /\ sessions[s].pc = "done" /\ sessions[t].pc = "done"

\* C24: no request that found its item and has a valid action is refused;
\* when two requests both read the same item as pending_review and both
\* returned, the item has the status and the reviewer of the request whose
\* flush came last, and the log has one event per request, each with
\* pending_review as the previous status.
C24_LastWriteWins ==
    /\ \A s \in DOMAIN sessions :
           sessions[s].pc \in {"not_found", "invalid_action"}
               => \/ sessions[s].previous_status = None
                  \/ sessions[s].action \notin ValidActions
    /\ \A s, t \in DOMAIN sessions : \A i \in DOMAIN review_queue :
           (/\ RacedOn(s, t, i)
            /\ Val(Val(sessions[s].item).reviewed_at)
                   < Val(Val(sessions[t].item).reviewed_at))
               => /\ review_queue[i].status
                         = Val(action_status(sessions[t].action))
                  /\ review_queue[i].reviewed_by
                         = Some(sessions[t].reviewed_by)
                  /\ Cardinality(ActionedEvents(i)) = 2
                  /\ \A k \in ActionedEvents(i) :
                         audit_events[k].previous_state
                             = Some([status |-> PENDING_REVIEW])
                  /\ \A u \in {s, t} : \E k \in ActionedEvents(i) :
                         /\ audit_events[k].actor = sessions[u].reviewed_by
                         /\ audit_events[k].new_state.status
                                = Val(action_status(sessions[u].action))

\* C24 witness: an approve and a reject raced on a pending item; the
\* approve was flushed first, the item is rejected, and the approval is in
\* the log as a transition from pending_review.
C24_Witness ==
    \E s, t \in DOMAIN sessions :
        /\ RacedOn(s, t, sessions[s].item_id)
        /\ sessions[s].action = "approve"
        /\ sessions[t].action = "reject"
        /\ Val(Val(sessions[s].item).reviewed_at)
               < Val(Val(sessions[t].item).reviewed_at)
        /\ review_queue[sessions[s].item_id].status = REJECTED
        /\ \E k \in ActionedEvents(sessions[s].item_id) :
               /\ audit_events[k].new_state.status = APPROVED
               /\ audit_events[k].previous_state
                      = Some([status |-> PENDING_REVIEW])

\* ------------------------------------------------------------------------
\* Frame of review_item
\* ------------------------------------------------------------------------
\* The step is a successful review_item call.
ReviewSucceeds ==
    /\ last_call'.op = "review_item"
    /\ last_call'.outcome = "ok"
    /\ clock' = clock + 1

\* C25: a successful review_item call changes, of the targeted review item,
\* only status, reviewed_by, reviewed_at and review_notes, and appends one
\* audit event; the other review items, the anomaly flags (is_resolved
\* included), the cost allocations (status included) and the reconciliation
\* run and records are unchanged.
C25_ReviewFrame ==
    [][ReviewSucceeds =>
           LET i == last_call'.item_id
           IN  /\ DOMAIN review_queue' = DOMAIN review_queue
               /\ \A j \in DOMAIN review_queue \ {i} :
                      review_queue'[j] = review_queue[j]
               /\ review_queue'[i] =
                      [review_queue[i] EXCEPT
                          !.status = review_queue'[i].status,
                          !.reviewed_by = review_queue'[i].reviewed_by,
                          !.reviewed_at = review_queue'[i].reviewed_at,
                          !.review_notes = review_queue'[i].review_notes]
               /\ Len(audit_events') = Len(audit_events) + 1
               /\ SubSeq(audit_events', 1, Len(audit_events)) = audit_events
               /\ anomaly_scan'.anomaly_flags = anomaly_scan.anomaly_flags
               /\ anomaly_scan'.allocations = anomaly_scan.allocations
               /\ reconciliation' = reconciliation]_vars

\* C25 witness: the review item of a missing_approval anomaly was approved;
\* the flag is unresolved and its allocation is not approved.
C25_Witness ==
    /\ last_call.op = "review_item"
    /\ last_call.outcome = "ok"
    /\ last_call.action = "approve"
    /\ review_queue[last_call.item_id].status = APPROVED
    /\ review_queue[last_call.item_id].entity_type = "anomaly_flag"
    /\ LET flag == AnomalyFlags[review_queue[last_call.item_id].entity_id]
       IN  /\ flag.anomaly_type = "missing_approval"
           /\ flag.review_item_id = Some(last_call.item_id)
           /\ ~flag.is_resolved
           /\ anomaly_scan.allocations[flag.allocation_id].status # "approved"

\* ------------------------------------------------------------------------
\* The audit log as the history of the review items
\* ------------------------------------------------------------------------
\* The positions in the log of the events of review item i, in log order.
ItemEvents(i) ==
    {k \in DOMAIN audit_events :
        /\ audit_events[k].entity_type = "review_item"
        /\ audit_events[k].entity_id = i}

\* The event of item i that precedes its event at position k.
PreviousItemEvent(i, k) ==
    CHOOSE j \in ItemEvents(i) :
        j < k /\ \A l \in ItemEvents(i) : l < k => l <= j

\* Replaying the events of item i gives its statuses: a creation with the
\* initial status, then transitions that each start from the status the
\* event before left, the last one ending in the current status.
Replays(i) ==
    /\ ItemEvents(i) # {}
    /\ \A k \in ItemEvents(i) :
           IF \A j \in ItemEvents(i) : k <= j
           THEN /\ audit_events[k].event_type = "REVIEW_ITEM_CREATED"
                /\ audit_events[k].previous_state = None
           ELSE /\ audit_events[k].event_type = "REVIEW_ITEM_ACTIONED"
                /\ audit_events[k].previous_state =
                       Some([status |->
                           audit_events[PreviousItemEvent(i, k)]
                               .new_state.status])
    /\ \E k \in ItemEvents(i) :
           /\ \A j \in ItemEvents(i) : j <= k
           /\ audit_events[k].new_state.status = review_queue[i].status

\* C26: the log replays the history of every review item; create_review_item
\* appends exactly one REVIEW_ITEM_CREATED event with the initial status, a
\* successful review_item exactly one REVIEW_ITEM_ACTIONED event with the
\* status before the call as previous_state and the status after it as
\* new_state, a failed call none; the events already in the log stay as they
\* are.
C26_AuditReplay ==
    /\ [](\A i \in DOMAIN review_queue : Replays(i))
    /\ [][LET n == Len(audit_events)
              last == audit_events'[n + 1]
          IN  /\ Len(audit_events') >= n
              /\ SubSeq(audit_events', 1, n) = audit_events
              /\ Len(review_queue') = Len(review_queue) + 1
                     => /\ Len(audit_events') = n + 1
                        /\ last.event_type = "REVIEW_ITEM_CREATED"
                        /\ last.entity_id = Len(review_queue')
                        /\ last.new_state.status
                               = review_queue'[Len(review_queue')].status
              /\ ReviewSucceeds
                     => /\ Len(audit_events') = n + 1
                        /\ last.event_type = "REVIEW_ITEM_ACTIONED"
                        /\ last.entity_id = last_call'.item_id
                        /\ last.previous_state =
                               Some([status |->
                                   review_queue[last_call'.item_id].status])
                        /\ last.new_state.status
                               = review_queue'[last_call'.item_id].status
              /\ last_call'.outcome \in {"not_found", "invalid_action"}
                     => audit_events' = audit_events]_vars

\* C26 witness: an item was created and reviewed twice, its three events
\* are in the log, and a call that failed afterwards added none.
C26_Witness ==
    /\ last_call.op = "review_item"
    /\ last_call.outcome = "invalid_action"
    /\ Cardinality(ItemEvents(last_call.item_id)) = 3
    /\ Len(audit_events) = Len(review_queue) + clock - 1

\* ------------------------------------------------------------------------
\* Review trigger and auto-approval
\* ------------------------------------------------------------------------
\* C27: for every amount, confidence and setting of the three thresholds,
\* when should_review_allocation reports that review is needed, the review
\* item that create_review_item makes for the same amount and confidence is
\* pending_review, not auto_approved.
C27_AutoApprovalNeverBypassesReview ==
    [][(/\ last_call.op = "should_review_allocation"
        /\ last_call.outcome = "needs_review"
        /\ last_call'.op = "create_review_item"
        /\ last_call'.dollar_amount = last_call.dollar_amount
        /\ last_call'.confidence = last_call.confidence)
           => review_queue'[last_call'.item_id].status = PENDING_REVIEW]_vars

\* ------------------------------------------------------------------------
\* The counters of a reconciliation run
\* ------------------------------------------------------------------------
\* The ERP records that no TMS record was paired with.
UnpairedErpRecords ==
    {e \in ErpRecords :
        \A t \in TmsRecords : Records[t].matched_with_id # Some(e)}

\* C28: when the run returns, matched_count is the number of matched TMS
\* records, mismatch_count the number of mismatched TMS records plus the
\* number of ERP records no TMS record was paired with, their sum is at
\* least the number of TMS records, total_records is the number of TMS and
\* ERP records, and match_rate is matched_count / max(TMS records, 1) to
\* four decimal places, between 0 and 1.
C28_RunCounters ==
    ReconciliationDone =>
        LET n_tms == Cardinality(TmsRecords)
            tms_matched ==
                {t \in TmsRecords : Records[t].match_status = "matched"}
            tms_mismatch ==
                {t \in TmsRecords : Records[t].match_status = "mismatch"}
            matched == Val(Run.matched_count)
            mismatch == Val(Run.mismatch_count)
            rate == Val(Run.match_rate)
        IN  /\ matched = Cardinality(tms_matched)
            /\ mismatch = Cardinality(tms_mismatch)
                              + Cardinality(UnpairedErpRecords)
            /\ matched + mismatch >= n_tms
            /\ Val(Run.total_records) = n_tms + Cardinality(ErpRecords)
            /\ 2 * Abs(rate * Max(n_tms, 1) - 10000 * matched)
                   <= Max(n_tms, 1)
            /\ rate >= 0 /\ rate <= 10000

\* C28 witness: a run with a matched pair, a TMS record without counterpart
\* and an ERP record that nothing was paired with: one match, two
\* mismatches, a match rate of one half.
C28_Witness ==
    /\ ReconciliationDone
    /\ Cardinality(TmsRecords) = 2
    /\ Cardinality(UnpairedErpRecords) = 1
    /\ Val(Run.matched_count) = 1
    /\ Val(Run.mismatch_count) = 2
    /\ Val(Run.total_records) = 4
    /\ Val(Run.match_rate) = 5000

\* ------------------------------------------------------------------------
\* Ties in match_line_items
\* ------------------------------------------------------------------------
\* Every PO item and every invoice item has the description of the first PO
\* item, which is not null.
OneDescription ==
    /\ line_items.po_items # <<>>
    /\ line_items.po_items[1].description # None
    /\ \A k \in DOMAIN line_items.po_items :
           line_items.po_items[k].description
               = line_items.po_items[1].description
    /\ \A m \in DOMAIN line_items.invoice_items :
           line_items.invoice_items[m].description
               = line_items.po_items[1].description

\* C29: a PO item is paired with the lowest-indexed invoice item among the
\* not-yet-consumed ones of the best description score: every free invoice
\* item before the paired one scores strictly less.  When all items of both
\* lists share one description, PO item i is paired with invoice item i for
\* every i below the shorter length.
C29_TieGoesToLowestIndex ==
    LineItemsDone =>
        /\ \A k \in DOMAIN line_items.result :
               LET r == line_items.result[k]
               IN  r.invoice_index # None
                   => \A m \in 0..(Val(r.invoice_index) - 1) :
                          m \notin ConsumedBefore(k)
                              => DescScore(k, m)
                                     < DescScore(k, Val(r.invoice_index))
        /\ OneDescription
               => \A k \in DOMAIN line_items.result :
                      k <= Len(line_items.invoice_items)
                          => line_items.result[k].invoice_index = Some(k - 1)

\* C29 witness: three PO items and two invoice items of one description;
\* the first two PO items took invoice items 0 and 1, the third none.
C29_Witness ==
    /\ LineItemsDone
    /\ OneDescription
    /\ Len(line_items.po_items) = 3
    /\ Len(line_items.invoice_items) = 2
    /\ line_items.result[1].invoice_index = Some(0)
    /\ line_items.result[2].invoice_index = Some(1)
    /\ line_items.result[3].invoice_index = None

\* ------------------------------------------------------------------------
\* Totality of the scalar matchers
\* ------------------------------------------------------------------------
\* r is a returned (matched, confidence) pair with a confidence in [0, 1].
IsMatchPair(r) ==
    /\ Len(r) = 2
    /\ r[1] \in BOOLEAN
    /\ r[2] \in 0..1000

\* C30: for all inputs and every tolerance >= 0, 0 included, match_by_amount
\* and match_by_date return a (matched, confidence) pair with a confidence
\* in [0, 1] and do not raise; an absent amount and an absent or unparsable
\* date give (false, 0.0).
C30_ScalarMatchersNeverRaise ==
    scalar_match.pc = "done" =>
        /\ IsMatchPair(scalar_match.amount_result)
        /\ IsMatchPair(scalar_match.date_result)
        /\ (scalar_match.amount_a = None \/ scalar_match.amount_b = None)
               => scalar_match.amount_result = <<FALSE, 0>>
        /\ (\/ scalar_match.date_a.kind \in {"missing", "invalid"}
            \/ scalar_match.date_b.kind \in {"missing", "invalid"})
               => scalar_match.date_result = <<FALSE, 0>>

====
